---- MODULE Spec2Model ----
(***************************************************************************)
(* Model of the streaming transcription session of MeetingAssistant:       *)
(*   src/audio_buffer.py        AudioBuffer, CircularAudioBuffer           *)
(*   src/main.py                websocket_transcribe_endpoint              *)
(*   src/speaker_recognition.py diarize_speaker_online_improved_async      *)
(*                                                                         *)
(* Samples are modelled by their position in the inbound stream (sample k  *)
(* is made of bytes 2k-1 and 2k), so loss, duplication and reordering are  *)
(* visible.  The value 0 is the zero sample np.zeros() fills a ring with.  *)
(*                                                                         *)
(* Times and rates are exact rationals: `offset` holds offset_ms times     *)
(* sample_rate (the code adds n / sample_rate * 1000 for n samples, the    *)
(* model adds 1000 * n), so IEEE rounding of the float is not modelled.    *)
(* Scores and the threshold sv_thr are in thousandths.                     *)
(***************************************************************************)
EXTENDS Integers, Sequences, FiniteSets, TLC

VARIABLES
    buffer,                  \* main.py:633  residual bytes (byte ids)
    audio_buffer,            \* main.py:613  AudioBuffer
    audio_vad,               \* main.py:615  CircularAudioBuffer
    last_vad_beg,            \* main.py:619
    last_vad_end,            \* main.py:619
    offset,                  \* main.py:620  offset_ms * sample_rate
    speaker_gallery,         \* main.py:623  dict, in insertion order
    speaker_counter,         \* main.py:624
    speaker_history,         \* main.py:625
    current_speaker,         \* main.py:626
    last_speaker_id,         \* main.py:629
    last_segment_end_time,   \* main.py:630
    last_activity_time,      \* main.py:637
    total_processed_samples, \* main.py:638
    pc,                      \* where the session coroutine is suspended
    chunk,                   \* main.py:659  the chunk last popped
    res,                     \* main.py:673  VAD segments still to handle
    sent,                    \* events passed to websocket.send_json
    sv,                      \* main.py:604  query parameter sv
    bytes_in,                \* environment: bytes received so far
    vad_clock,               \* environment: chunks fed to the VAD
    vad_speaking,            \* environment: VAD is inside a speech region
    vad_mark,                \* environment: last boundary the VAD reported
    vad_begun,               \* environment: speech regions the VAD has begun
    appended,                \* history: samples handed to AudioBuffer.append
    popped,                  \* history: concatenation of pop_front results
    dropped,                 \* history: samples that left the ring's front
    last_op,                 \* history: the last buffer operation applied
    last_call,               \* history: the last diarizer call and its result
    runs,                    \* diarizer calls in progress, await by await
    text,                    \* a text under normalization
    asr_log,                 \* history: the ASR calls that raised
    script,                  \* environment: what a scripted run is fed
    sessions,                \* concurrent sessions and the worker pool
    config                   \* the settings read at start-up (src/config.py)

vars == <<buffer, audio_buffer, audio_vad, last_vad_beg, last_vad_end, offset,
          speaker_gallery, speaker_counter, speaker_history, current_speaker,
          last_speaker_id, last_segment_end_time, last_activity_time,
          total_processed_samples, pc, chunk, res, sent, sv, bytes_in, vad_clock,
          vad_speaking, vad_mark, vad_begun, appended, popped, dropped,
          last_op, last_call, runs, text, asr_log, script, sessions, config>>

bufVars   == <<buffer, audio_buffer, bytes_in, appended, popped>>
ringVars  == <<audio_vad, dropped>>
vadVars   == <<last_vad_beg, last_vad_end, offset, last_activity_time,
               total_processed_samples, vad_clock, vad_speaking, vad_mark,
               vad_begun>>
diarVars  == <<speaker_gallery, speaker_counter, speaker_history,
               current_speaker, last_call>>
eventVars == <<last_speaker_id, last_segment_end_time, sent>>
ctlVars   == <<pc, chunk, res, sv>>
auxVars   == <<runs, text, asr_log, script, sessions, config>>

----------------------------------------------------------------------------
(* Sequence helpers (Python slicing)                                       *)

Min(a, b) == IF a <= b THEN a ELSE b
Max(a, b) == IF a >= b THEN a ELSE b

\* s[a:b] for 0 <= a, 0 <= b (Python clamps both to len(s))
Slice(s, a, b) ==
    LET lo == Min(a, Len(s))
        hi == Min(b, Len(s))
    IN  IF hi <= lo THEN << >> ELSE SubSeq(s, lo + 1, hi)

\* s[-n:] for n >= 1
LastN(s, n) == IF n >= Len(s) THEN s ELSE SubSeq(s, Len(s) - n + 1, Len(s))

\* the stream of samples a+1 .. b
Run(a, b) == [i \in 1..(b - a) |-> a + i]

RECURSIVE Concat(_)
Concat(ss) == IF ss = << >> THEN << >> ELSE Head(ss) \o Concat(Tail(ss))

\* int(x) of Python on the rational a / b, b > 0: truncation toward zero
TruncDiv(a, b) == IF a >= 0 THEN a \div b ELSE -((-a) \div b)

----------------------------------------------------------------------------
(* Configuration (src/config.py).  sample_rate, chunk_size_ms and           *)
(* audio_buffer_max_size are scaled down so that the state space is finite *)
(* and small; every other value is the program's default.                  *)

sample_rate == 10
chunk_size_ms == 3000
audio_buffer_max_size == 2

vad_buffer_seconds == 15
silence_reset_seconds == 30
keep_audio_seconds == 5
min_audio_length_ms == 800
max_audio_length_ms == 5000
pause_threshold_ms == 1500
sv_thr == 420
\* vad_buffer_cleanup_threshold 0.8 and vad_buffer_cleanup_ratio 0.3, in tenths
vad_buffer_cleanup_threshold_x10 == 8
vad_buffer_cleanup_ratio_x10 == 3

\* main.py:610
chunk_size == TruncDiv(chunk_size_ms * sample_rate, 1000)
\* main.py:614
vad_buffer_size == sample_rate * vad_buffer_seconds

----------------------------------------------------------------------------
(* AudioBuffer (src/audio_buffer.py:10-93)                                 *)

\* audio_buffer.py:14-17
AudioBuffer_init == [chunks |-> << >>, total_length |-> 0]

\* collections.deque(maxlen=n).append: a full deque discards its left end
deque_append(q, x, maxlen) ==
    IF maxlen = 0 THEN << >>
    ELSE IF Len(q) >= maxlen THEN Tail(q) \o <<x>>
    ELSE Append(q, x)

\* audio_buffer.py:19-23
AudioBuffer_append(ab, data, maxlen) ==
    IF Len(data) > 0
    THEN [chunks |-> deque_append(ab.chunks, data, maxlen),
          total_length |-> ab.total_length + Len(data)]
    ELSE ab

\* audio_buffer.py:47-61, the while loop; st = [ab, result_data, remaining]
RECURSIVE pop_front_loop(_)
pop_front_loop(st) ==
    IF ~(st.remaining > 0 /\ st.ab.chunks # << >>) THEN st
    ELSE LET c == Head(st.ab.chunks)
         IN  IF Len(c) <= st.remaining
             THEN pop_front_loop(
                    [ab |-> [chunks |-> Tail(st.ab.chunks),
                             total_length |-> st.ab.total_length - Len(c)],
                     result_data |-> st.result_data \o c,
                     remaining |-> st.remaining - Len(c)])
             ELSE pop_front_loop(
                    [ab |-> [chunks |-> <<Slice(c, st.remaining, Len(c))>>
                                          \o Tail(st.ab.chunks),
                             total_length |-> st.ab.total_length - st.remaining],
                     result_data |-> st.result_data \o Slice(c, 0, st.remaining),
                     remaining |-> 0])

\* audio_buffer.py:39-63; returns [ab |-> buffer after, out |-> samples]
AudioBuffer_pop_front(ab, length) ==
    IF ab.chunks = << >> THEN [ab |-> ab, out |-> << >>]
    ELSE LET st == pop_front_loop([ab |-> ab, result_data |-> << >>,
                                   remaining |-> length])
         IN  [ab |-> st.ab, out |-> st.result_data]

\* audio_buffer.py:65-67
AudioBuffer_len(ab) == ab.total_length

\* the samples actually resident in the deque
AudioBuffer_resident(ab) == Concat(ab.chunks)

----------------------------------------------------------------------------
(* CircularAudioBuffer (src/audio_buffer.py:96-195).  The backing array is *)
(* 0-based in the code: cell p of the code is buffer[p + 1] here.          *)

\* audio_buffer.py:100-106
CircularAudioBuffer_init(max_samples) ==
    [buffer |-> [i \in 1..max_samples |-> 0], max_samples |-> max_samples,
     write_pos |-> 0, read_pos |-> 0, size |-> 0]

\* buffer[a:b] = data, for 0 <= a <= b <= max_samples and len(data) = b - a
SetSlice(buf, a, b, data) ==
    [i \in 1..Len(buf) |-> IF a < i /\ i <= b THEN data[i - a] ELSE buf[i]]

\* a ring that keeps the oldest samples of an oversized append
ring_replace_oldest(cb, data) ==
    [cb EXCEPT !.buffer = Slice(data, 0, cb.max_samples),
               !.write_pos = 0, !.read_pos = 0, !.size = cb.max_samples]

\* audio_buffer.py:114-119: the data is at least as long as the ring
ring_replace(cb, data) ==
    [cb EXCEPT !.buffer = LastN(data, cb.max_samples),
               !.write_pos = 0, !.read_pos = 0, !.size = cb.max_samples]

\* audio_buffer.py:124-136: the data fits into the free space
ring_write(cb, data) ==
    LET data_len == Len(data)
        end_pos == cb.write_pos + data_len
        split_point == cb.max_samples - cb.write_pos
        written ==
            IF end_pos <= cb.max_samples
            THEN SetSlice(cb.buffer, cb.write_pos, end_pos, data)
            ELSE SetSlice(SetSlice(cb.buffer, cb.write_pos, cb.max_samples,
                                   Slice(data, 0, split_point)),
                          0, end_pos - cb.max_samples,
                          Slice(data, split_point, data_len))
    IN  [cb EXCEPT !.buffer = written,
                   !.write_pos = end_pos % cb.max_samples,
                   !.size = cb.size + data_len]

\* audio_buffer.py:146-147: the read head steps over the overwritten samples
ring_advance(cb, overwrite_count) ==
    [cb EXCEPT !.read_pos = (cb.read_pos + overwrite_count) % cb.max_samples,
               !.size = cb.size - overwrite_count]

\* audio_buffer.py:108-150
RECURSIVE CircularAudioBuffer_append(_, _)
CircularAudioBuffer_append(cb, data) ==
    LET data_len == Len(data)
        available_space == cb.max_samples - cb.size
    IN  IF data_len >= cb.max_samples THEN ring_replace(cb, data)
        ELSE IF data_len <= available_space THEN ring_write(cb, data)
        ELSE LET overwrite_count == data_len - available_space
                 first == IF available_space > 0
                          THEN CircularAudioBuffer_append(
                                   cb, Slice(data, 0, available_space))
                          ELSE cb
             IN  CircularAudioBuffer_append(
                     ring_advance(first, overwrite_count),
                     Slice(data, available_space, data_len))

\* a read that does not wrap around the end of the backing array
get_range_no_wrap(cb, start_offset, length) ==
    IF length <= 0 \/ start_offset >= cb.size THEN << >>
    ELSE LET actual_length == Min(length, cb.size - start_offset)
             start_pos == (cb.read_pos + start_offset) % cb.max_samples
         IN  Slice(cb.buffer, start_pos, start_pos + actual_length)

\* audio_buffer.py:152-172
CircularAudioBuffer_get_range(cb, start_offset, length) ==
    IF length <= 0 \/ start_offset >= cb.size THEN << >>
    ELSE LET actual_length == Min(length, cb.size - start_offset)
             start_pos == (cb.read_pos + start_offset) % cb.max_samples
             end_pos == start_pos + actual_length
             first_part_len == cb.max_samples - start_pos
         IN  IF end_pos <= cb.max_samples
             THEN Slice(cb.buffer, start_pos, end_pos)
             ELSE Slice(cb.buffer, start_pos, cb.max_samples)
                  \o Slice(cb.buffer, 0, actual_length - first_part_len)

\* audio_buffer.py:174-186; returns [cb |-> ring after, out |-> samples]
CircularAudioBuffer_pop_front(cb, length) ==
    IF length <= 0 \/ cb.size = 0 THEN [cb |-> cb, out |-> << >>]
    ELSE LET actual_length == Min(length, cb.size)
         IN  [cb |-> [cb EXCEPT !.read_pos = (cb.read_pos + actual_length)
                                                 % cb.max_samples,
                                !.size = cb.size - actual_length],
              out |-> CircularAudioBuffer_get_range(cb, 0, actual_length)]

\* audio_buffer.py:188-189
CircularAudioBuffer_len(cb) == cb.size

\* audio_buffer.py:191-195
CircularAudioBuffer_clear(cb) ==
    [cb EXCEPT !.write_pos = 0, !.read_pos = 0, !.size = 0]

\* the samples resident in the ring, oldest first
CircularAudioBuffer_resident(cb) == CircularAudioBuffer_get_range(cb, 0, cb.size)

----------------------------------------------------------------------------
(* Speaker diarization (src/speaker_recognition.py).  A label            *)
(* f"发言人{n}" is <<"spk", n>>, the default label "发言人" is <<"spk">>,   *)
(* Python's None is <<"None">>.  An audio segment is                       *)
(* [samples, energy, variance]: np.mean(np.abs(x)) and np.var(x) are       *)
(* measured by the environment, in units of 0.0001.  A gallery is the      *)
(* dict in insertion order: a sequence of [id, ref].                       *)

None == <<"None">>
DefaultSpeaker == <<"spk">>
SpeakerLabel(n) == <<"spk", n>>

\* bool(x) of an Optional[str] holding None or a label
Truthy(x) == x # None

\* dict: k in d, d[k], d[k] = v, list(d.keys())
DictKeys(d) == [i \in 1..Len(d) |-> d[i].id]
DictHas(d, k) == \E i \in 1..Len(d) : d[i].id = k
DictGet(d, k) == d[CHOOSE i \in 1..Len(d) : d[i].id = k].val
DictSet(d, k, v) ==
    IF DictHas(d, k)
    THEN [i \in 1..Len(d) |-> IF d[i].id = k THEN [id |-> k, val |-> v]
                                             ELSE d[i]]
    ELSE Append(d, [id |-> k, val |-> v])

\* position of label k in gallery g
IndexOf(g, k) == CHOOSE i \in 1..Len(g) : g[i].id = k

\* a gate that does not look at the variance
check_audio_quality_no_variance(audio_segment) ==
    LET n == Len(audio_segment.samples)
    IN  /\ n # 0
        /\ ~(n * 1000 < min_audio_length_ms * sample_rate
             \/ n * 1000 > max_audio_length_ms * sample_rate)
        /\ ~(audio_segment.energy < 50)

\* speaker_recognition.py:15-47 (sample_rate is the default argument)
check_audio_quality(audio_segment) ==
    LET n == Len(audio_segment.samples)
    IN  /\ n # 0
        /\ ~(n * 1000 < min_audio_length_ms * sample_rate
             \/ n * 1000 > max_audio_length_ms * sample_rate)
        /\ ~(audio_segment.energy < 50)
        /\ ~(audio_segment.variance < 5)

\* speaker_recognition.py:80-104: the SV calls the diarizer prepares, one
\* per gallery entry, in insertion order; none when it returns before
comparison_tasks(audio_segment, gallery) ==
    IF ~check_audio_quality(audio_segment) \/ gallery = << >>
    THEN << >>
    ELSE DictKeys(gallery)

\* a scoring loop that a failed SV call sends back to its start
score_step_restart(acc, spk_id, res_sv) ==
    IF ~res_sv.ok
    THEN [scores |-> << >>, best_score |-> -1000, identified_speaker |-> None]
    ELSE [scores |-> DictSet(acc.scores, spk_id, res_sv.score),
          best_score |-> IF res_sv.score > acc.best_score
                         THEN res_sv.score ELSE acc.best_score,
          identified_speaker |-> IF res_sv.score > acc.best_score
                                 THEN spk_id ELSE acc.identified_speaker]

\* speaker_recognition.py:112-123: one round of the scoring loop, on the
\* result of the SV task for spk_id; acc = [scores, best_score, identified]
score_step(acc, spk_id, res_sv) ==
    IF ~res_sv.ok THEN acc
    ELSE [scores |-> DictSet(acc.scores, spk_id, res_sv.score),
          best_score |-> IF res_sv.score > acc.best_score
                         THEN res_sv.score ELSE acc.best_score,
          identified_speaker |-> IF res_sv.score > acc.best_score
                                 THEN spk_id ELSE acc.identified_speaker]

RECURSIVE score_loop(_, _, _, _)
score_loop(acc, speaker_ids, sv_results, i) ==
    IF i > Len(speaker_ids) THEN acc
    ELSE score_loop(score_step(acc, speaker_ids[i], sv_results[i]),
                    speaker_ids, sv_results, i + 1)

\* speaker_recognition.py:132-141
dynamic_threshold_raised(sv_thr_, scores, current) ==
    /\ Truthy(current) /\ DictHas(scores, current)
    /\ DictGet(scores, current) * 10 > sv_thr_ * 8

\* best_score >= dynamic_threshold (speaker_recognition.py:152)
reaches_threshold(best_score, sv_thr_, raised) ==
    IF raised THEN best_score * 10 >= sv_thr_ * 11
    ELSE best_score >= sv_thr_

\* continuity without the 0.6 band: the current speaker must reach sv_thr
continuity_no_band(current, identified_speaker, best_score, sv_thr_) ==
    /\ Truthy(current)
    /\ identified_speaker = current
    /\ best_score >= sv_thr_

\* speaker_recognition.py:144
continuity(current, identified_speaker, best_score, sv_thr_) ==
    /\ Truthy(current)
    /\ identified_speaker = current
    /\ best_score * 10 >= sv_thr_ * 6

\* a new speaker only when every score is below a tenth of the threshold
all_scores_low_tenth(scores, sv_thr_) ==
    \A i \in 1..Len(scores) : scores[i].val * 10 < sv_thr_

\* a new speaker as soon as every score is below the threshold itself
all_scores_low_loose(scores, sv_thr_) ==
    \A i \in 1..Len(scores) : scores[i].val < sv_thr_

\* speaker_recognition.py:161
all_scores_low(scores, sv_thr_) ==
    \A i \in 1..Len(scores) : scores[i].val * 10 < sv_thr_ * 7

\* max(scores.items(), key=lambda x: x[1])[0]: the first entry of the
\* largest score (speaker_recognition.py:173)
best_match(scores) ==
    scores[CHOOSE i \in 1..Len(scores) :
             /\ \A j \in 1..Len(scores) : scores[j].val <= scores[i].val
             /\ \A j \in 1..(i - 1) : scores[j].val < scores[i].val].id

\* a new entry whose label is taken before the counter is incremented
new_speaker_label_before_increment(audio_segment, gallery, counter, history, confidence) ==
    LET speaker_id == SpeakerLabel(counter)
    IN  [speaker_id |-> speaker_id,
         speaker_gallery |-> DictSet(gallery, speaker_id, audio_segment),
         speaker_counter |-> counter + 1,
         speaker_history |-> Append(history, <<speaker_id, confidence>>),
         current_speaker |-> speaker_id,
         rule |-> IF gallery = << >> THEN "first" ELSE "new"]

\* a new entry that is always written with confidence 1.0
new_speaker_sure(audio_segment, gallery, counter, history, confidence) ==
    LET speaker_id == SpeakerLabel(counter + 1)
    IN  [speaker_id |-> speaker_id,
         speaker_gallery |-> DictSet(gallery, speaker_id, audio_segment),
         speaker_counter |-> counter + 1,
         speaker_history |-> Append(history, <<speaker_id, 1000>>),
         current_speaker |-> speaker_id,
         rule |-> IF gallery = << >> THEN "first" ELSE "new"]

\* a new entry that returns the counter it was given
new_speaker_stale_counter(audio_segment, gallery, counter, history, confidence) ==
    LET speaker_id == SpeakerLabel(counter + 1)
    IN  [speaker_id |-> speaker_id,
         speaker_gallery |-> DictSet(gallery, speaker_id, audio_segment),
         speaker_counter |-> IF gallery = << >> THEN counter + 1 ELSE counter,
         speaker_history |-> Append(history, <<speaker_id, confidence>>),
         current_speaker |-> speaker_id,
         rule |-> IF gallery = << >> THEN "first" ELSE "new"]

\* speaker_recognition.py:88-95 and 163-170: a new gallery entry
new_speaker(audio_segment, gallery, counter, history, confidence) ==
    LET speaker_id == SpeakerLabel(counter + 1)
    IN  [speaker_id |-> speaker_id,
         speaker_gallery |-> DictSet(gallery, speaker_id, audio_segment),
         speaker_counter |-> counter + 1,
         speaker_history |-> Append(history, <<speaker_id, confidence>>),
         current_speaker |-> speaker_id,
         rule |-> IF gallery = << >> THEN "first" ELSE "new"]

\* a commit that leaves the current speaker unset
commit_unset_current(speaker_id, gallery, counter, history, confidence, rule) ==
    [speaker_id |-> speaker_id,
     speaker_gallery |-> gallery,
     speaker_counter |-> counter,
     speaker_history |-> Append(history, <<speaker_id, confidence>>),
     current_speaker |-> None,
     rule |-> rule]

\* a commit that writes no history entry
commit_unlogged(speaker_id, gallery, counter, history, confidence, rule) ==
    [speaker_id |-> speaker_id,
     speaker_gallery |-> gallery,
     speaker_counter |-> counter,
     speaker_history |-> history,
     current_speaker |-> speaker_id,
     rule |-> rule]

\* the commit paths that keep the gallery (lines 144-157 and 171-177)
commit(speaker_id, gallery, counter, history, confidence, rule) ==
    [speaker_id |-> speaker_id,
     speaker_gallery |-> gallery,
     speaker_counter |-> counter,
     speaker_history |-> Append(history, <<speaker_id, confidence>>),
     current_speaker |-> speaker_id,
     rule |-> rule]

\* speaker_recognition.py:107-109
no_scores ==
    [scores |-> << >>, best_score |-> -1000, identified_speaker |-> None]

\* speaker_recognition.py:132-177: the decision, once the scoring loop is over
decide(audio_segment, gallery, counter, sv_thr_, history, current, acc) ==
    LET raised == dynamic_threshold_raised(sv_thr_, acc.scores, current)
    IN  IF continuity(current, acc.identified_speaker, acc.best_score, sv_thr_)
        THEN commit(current, gallery, counter, history,
                    Min(1000, acc.best_score), "continuity")
        ELSE IF reaches_threshold(acc.best_score, sv_thr_, raised)
        THEN commit(acc.identified_speaker, gallery, counter, history,
                    Min(1000, acc.best_score), "match")
        ELSE IF all_scores_low(acc.scores, sv_thr_)
        THEN new_speaker(audio_segment, gallery, counter, history, 800)
        ELSE commit(best_match(acc.scores), gallery, counter, history,
                    Min(700, DictGet(acc.scores, best_match(acc.scores))),
                    "moderate")

\* speaker_recognition.py:50-177.  sv_results[i] is the outcome of the SV call
\* against the i-th gallery entry: [ok |-> TRUE, score |-> s] or
\* [ok |-> FALSE] when the call raises.  The result also names the rule
\* that decided (the log line the code writes).
diarize_speaker_online_improved_async(audio_segment, gallery, counter, sv_thr_, history, current, sv_results) ==
    IF ~check_audio_quality(audio_segment)
    THEN [speaker_id |-> IF Truthy(current) THEN current ELSE DefaultSpeaker,
          speaker_gallery |-> gallery, speaker_counter |-> counter,
          speaker_history |-> history, current_speaker |-> current,
          rule |-> "gate"]
    ELSE IF gallery = << >>
    THEN new_speaker(audio_segment, gallery, counter, history, 1000)
    ELSE decide(audio_segment, gallery, counter, sv_thr_, history, current,
                score_loop(no_scores,
                           comparison_tasks(audio_segment, gallery),
                           sv_results, 1))

\* the outcomes the SV capability can give for a gallery of n entries
SvOutcomes(n, grid) ==
    [1..n -> {[ok |-> FALSE]} \cup {[ok |-> TRUE, score |-> s] : s \in grid}]

----------------------------------------------------------------------------
(* Text normalization (src/text_processing.py).  A string is a sequence of *)
(* atoms: a control token such as "<|zh|>" is one atom (plain text holds   *)
(* none of its characters '<', '|', '>'), " " is a space, "a" a letter,    *)
(* "The." the four characters the code looks for, and an emoji is written  *)
(* as a name in parentheses: "(happy)" is U+1F60A, "(bgm)" is U+1F3BC,     *)
(* "(unk)" is U+2753.                                                      *)

\* text_processing.py:9-12
emo_dict ==
    << <<"<|HAPPY|>", <<"(happy)">> >>, <<"<|SAD|>", <<"(sad)">> >>,
       <<"<|ANGRY|>", <<"(angry)">> >>, <<"<|NEUTRAL|>", << >> >>,
       <<"<|FEARFUL|>", <<"(fearful)">> >>,
       <<"<|DISGUSTED|>", <<"(disgusted)">> >>,
       <<"<|SURPRISED|>", <<"(surprised)">> >> >>

\* text_processing.py:15-18
event_dict ==
    << <<"<|BGM|>", <<"(bgm)">> >>, <<"<|Speech|>", << >> >>,
       <<"<|Applause|>", <<"(applause)">> >>,
       <<"<|Laughter|>", <<"(laughter)">> >>, <<"<|Cry|>", <<"(cry)">> >>,
       <<"<|Sneeze|>", <<"(sneeze)">> >>, <<"<|Breath|>", << >> >>,
       <<"<|Cough|>", <<"(sneeze)">> >> >>

\* text_processing.py:21-29: the keys of emoji_dict, in order
emoji_dict_keys ==
    << <<"<|nospeech|>", "<|Event_UNK|>">>, <<"<|zh|>">>, <<"<|en|>">>,
       <<"<|yue|>">>, <<"<|ja|>">>, <<"<|ko|>">>, <<"<|nospeech|>">>,
       <<"<|HAPPY|>">>, <<"<|SAD|>">>, <<"<|ANGRY|>">>, <<"<|NEUTRAL|>">>,
       <<"<|BGM|>">>, <<"<|Speech|>">>, <<"<|Applause|>">>,
       <<"<|Laughter|>">>, <<"<|FEARFUL|>">>, <<"<|DISGUSTED|>">>,
       <<"<|SURPRISED|>">>, <<"<|Cry|>">>, <<"<|EMO_UNKNOWN|>">>,
       <<"<|Sneeze|>">>, <<"<|Breath|>">>, <<"<|Cough|>">>, <<"<|Sing|>">>,
       <<"<|Speech_Noise|>">>, <<"<|withitn|>">>, <<"<|woitn|>">>,
       <<"<|GBG|>">>, <<"<|Event_UNK|>">> >>

\* text_processing.py:32-35: the keys of lang_dict, in order
lang_dict_keys ==
    <<"<|zh|>", "<|en|>", "<|yue|>", "<|ja|>", "<|ko|>", "<|nospeech|>">>

\* text_processing.py:38-39
emo_set == {"(happy)", "(sad)", "(angry)", "(fearful)", "(disgusted)",
            "(surprised)"}
event_set == {"(bgm)", "(applause)", "(laughter)", "(cry)", "(sneeze)",
              "(mask)"}

\* emo_set.union(event_set) in one iteration order; the replacements of
\* text_processing.py:67-69 for different emoji do not interfere
emoji_order ==
    <<"(happy)", "(sad)", "(angry)", "(fearful)", "(disgusted)",
      "(surprised)", "(bgm)", "(applause)", "(laughter)", "(cry)",
      "(sneeze)", "(mask)">>

\* str.startswith
IsPrefix(old, str) ==
    Len(old) <= Len(str) /\ SubSeq(str, 1, Len(old)) = old

\* str.replace(old, new): leftmost occurrences, not overlapping
RECURSIVE str_replace(_, _, _)
str_replace(str, old, new) ==
    IF str = << >> THEN << >>
    ELSE IF IsPrefix(old, str)
    THEN new \o str_replace(SubSeq(str, Len(old) + 1, Len(str)), old, new)
    ELSE <<Head(str)>> \o str_replace(Tail(str), old, new)

\* str.count(old)
RECURSIVE str_count(_, _)
str_count(str, old) ==
    IF str = << >> THEN 0
    ELSE IF IsPrefix(old, str)
    THEN 1 + str_count(SubSeq(str, Len(old) + 1, Len(str)), old)
    ELSE str_count(Tail(str), old)

\* str.lstrip(), str.rstrip(), str.strip(): white space is the space
RECURSIVE str_lstrip(_)
str_lstrip(str) ==
    IF str # << >> /\ Head(str) = " " THEN str_lstrip(Tail(str)) ELSE str

RECURSIVE str_rstrip(_)
str_rstrip(str) ==
    IF str # << >> /\ str[Len(str)] = " "
    THEN str_rstrip(SubSeq(str, 1, Len(str) - 1)) ELSE str

str_strip(str) == str_lstrip(str_rstrip(str))

\* str.split(sep) for a separator of one atom; acc is the piece being read
RECURSIVE str_split_from(_, _, _)
str_split_from(str, sep, acc) ==
    IF str = << >> THEN <<acc>>
    ELSE IF Head(str) = sep
    THEN <<acc>> \o str_split_from(Tail(str), sep, << >>)
    ELSE str_split_from(Tail(str), sep, Append(acc, Head(str)))

str_split(str, sep) == str_split_from(str, sep, << >>)

\* position of a control token among the keys of emoji_dict
sptk_index(sptk) ==
    CHOOSE k \in 1..Len(emoji_dict_keys) : emoji_dict_keys[k] = <<sptk>>

\* text_processing.py:51-54: count each key, then delete it.  The test
\* before the next step always holds: it makes this step's count and
\* string values before they are handed on.
RECURSIVE sptk_pass(_, _, _)
sptk_pass(str, k, sptk_dict) ==
    IF k > Len(emoji_dict_keys) THEN [s |-> str, sptk_dict |-> sptk_dict]
    ELSE LET counted == Append(sptk_dict, str_count(str, emoji_dict_keys[k]))
             deleted == str_replace(str, emoji_dict_keys[k], << >>)
         IN  IF Len(counted) = k /\ Len(deleted) <= Len(str)
             THEN sptk_pass(deleted, k + 1, counted)
             ELSE [s |-> deleted, sptk_dict |-> counted]

\* an emotion that is never picked up from the tokens
pick_emo_neutral(sptk_dict, k, emo) == "<|NEUTRAL|>"

\* text_processing.py:56-59: the first emotion token with the highest count
RECURSIVE pick_emo(_, _, _)
pick_emo(sptk_dict, k, emo) ==
    IF k > Len(emo_dict) THEN emo
    ELSE IF sptk_dict[sptk_index(emo_dict[k][1])] > sptk_dict[sptk_index(emo)]
    THEN pick_emo(sptk_dict, k + 1, emo_dict[k][1])
    ELSE pick_emo(sptk_dict, k + 1, emo)

\* emo_dict[emo]
emo_dict_get(emo) ==
    emo_dict[CHOOSE k \in 1..Len(emo_dict) : emo_dict[k][1] = emo][2]

\* text_processing.py:61-63: prepend the emoji of every event that occurred
RECURSIVE prepend_events(_, _, _)
prepend_events(str, k, sptk_dict) ==
    IF k > Len(event_dict) THEN str
    ELSE IF sptk_dict[sptk_index(event_dict[k][1])] > 0
    THEN prepend_events(event_dict[k][2] \o str, k + 1, sptk_dict)
    ELSE prepend_events(str, k + 1, sptk_dict)

\* text_processing.py:67-69: drop one space on each side of every emoji
RECURSIVE close_up(_, _)
close_up(str, k) ==
    IF k > Len(emoji_order) THEN str
    ELSE close_up(str_replace(str_replace(str, <<" ", emoji_order[k]>>, <<emoji_order[k]>>), <<emoji_order[k], " ">>, <<emoji_order[k]>>), k + 1)

\* text_processing.py:49-71
format_str_v2(str) ==
    LET pass == sptk_pass(str, 1, << >>)
        emo == pick_emo(pass.sptk_dict, 1, "<|NEUTRAL|>")
        with_events == prepend_events(pass.s, 1, pass.sptk_dict)
    IN str_strip(close_up(with_events \o emo_dict_get(emo), 1))

\* text_processing.py:76-80, on a string that is not empty
get_emo(str) == IF str[Len(str)] \in emo_set THEN str[Len(str)] ELSE "None"
get_event(str) == IF str[1] \in event_set THEN str[1] ELSE "None"

\* text_processing.py:84-85
RECURSIVE replace_langs(_, _)
replace_langs(str, k) ==
    IF k > Len(lang_dict_keys) THEN str
    ELSE replace_langs(str_replace(str, <<lang_dict_keys[k]>>, <<"<|lang|>">>), k + 1)

\* text_processing.py:91-99: ok is FALSE when get_event indexes an empty
\* string at line 96 (IndexError)
RECURSIVE join_pieces(_, _, _, _)
join_pieces(s_list, i, new_s, cur_ent_event) ==
    IF i > Len(s_list) THEN [ok |-> TRUE, s |-> new_s]
    ELSE IF Len(s_list[i]) = 0
    THEN join_pieces(s_list, i + 1, new_s, cur_ent_event)
    ELSE LET s_i == IF get_event(s_list[i]) = cur_ent_event
                       /\ get_event(s_list[i]) # "None"
                    THEN Tail(s_list[i]) ELSE s_list[i]
         IN  IF s_i = << >> THEN [ok |-> FALSE, s |-> << >>]
             ELSE join_pieces(s_list, i + 1,
                      (IF get_emo(s_i) # "None" /\ get_emo(s_i) = get_emo(new_s)
                       THEN SubSeq(new_s, 1, Len(new_s) - 1) ELSE new_s)
                      \o str_strip(s_i),
                      get_event(s_i))

\* text_processing.py:74-102: [ok, s]; ok is FALSE when the call raises
format_str_v3(str) ==
    LET marked == str_replace(str, <<"<|nospeech|>", "<|Event_UNK|>">>, <<"(unk)">>)
        pieces == str_split(replace_langs(marked, 1), "<|lang|>")
        s_list == [i \in 1..Len(pieces) |-> str_strip(format_str_v2(pieces[i]))]
        new_s == <<" ">> \o s_list[1]
        joined == join_pieces(s_list, 2, new_s, get_event(new_s))
    IN  IF joined.ok
        THEN [ok |-> TRUE, s |-> str_strip(str_replace(joined.s, <<"The.">>, <<" ">>))]
        ELSE joined

\* "(ni)" and "(hao)" are the ideographs U+4F60 and U+597D.
\* the atoms that hold a character of [\u4e00-\u9fffA-Za-z0-9]: the letter,
\* "The." and every control token (its name is spelled in ASCII letters)
word_atoms ==
    {"a", "The.", "<|lang|>", "(ni)", "(hao)"} \cup UNION {{emoji_dict_keys[k][j] : j \in 1..Len(emoji_dict_keys[k])} : k \in 1..Len(emoji_dict_keys)}

\* text_processing.py:105-107
contains_chinese_english_number(str) ==
    \E i \in 1..Len(str) : str[i] \in word_atoms

----------------------------------------------------------------------------
(* Initial values of the session's locals (src/main.py:609-638)            *)

BufInit ==
    /\ buffer = << >>
    /\ audio_buffer = AudioBuffer_init
    /\ bytes_in = 0
    /\ appended = 0
    /\ popped = << >>

RingInit(max_samples) ==
    /\ audio_vad = CircularAudioBuffer_init(max_samples)
    /\ dropped = 0

VadInit ==
    /\ last_vad_beg = -1
    /\ last_vad_end = -1
    /\ offset = 0
    /\ last_activity_time = 0
    /\ total_processed_samples = 0
    /\ vad_clock = 0
    /\ vad_speaking = FALSE
    /\ vad_mark = 0
    /\ vad_begun = 0

DiarInit ==
    /\ speaker_gallery = << >>
    /\ speaker_counter = 0
    /\ speaker_history = << >>
    /\ current_speaker = None
    /\ last_call = [op |-> "none", n |-> 0]
    /\ runs = << >>

\* config.py:35: the settings a process starts with unless its environment
\* overrides them
default_config == [enable_smart_line_break |-> TRUE]

EventInit ==
    /\ last_speaker_id = None
    /\ last_segment_end_time = 0
    /\ sent = << >>
    /\ text = << >>
    /\ asr_log = << >>
    /\ script = << >>
    /\ sessions = << >>
    /\ config = default_config

CtlInit ==
    /\ pc = "receive"
    /\ chunk = << >>
    /\ res = << >>
    /\ sv = FALSE

----------------------------------------------------------------------------
(* The session loop (src/main.py:590-801)                                  *)

\* np.frombuffer(b, dtype=np.int16): bytes 2k-1 and 2k make sample k; a pair
\* that straddles two samples yields garbage (-1)
int16(lo, hi) == IF hi = lo + 1 /\ hi % 2 = 0 THEN hi \div 2 ELSE -1
np_frombuffer(b) == [i \in 1..(Len(b) \div 2) |-> int16(b[2 * i - 1], b[2 * i])]

\* main.py:649: buffer[:len(buffer) - (len(buffer) % 2)]
aligned_prefix(b) == Slice(b, 0, Len(b) - (Len(b) % 2))
\* a loop that keeps no byte between messages
residual_dropped(b) == << >>

\* main.py:654: buffer[len(buffer) - (len(buffer) % 2):]
residual(b) == Slice(b, Len(b) - (Len(b) % 2), Len(b))

\* main.py:657: the head of the while loop decides where the coroutine
\* suspends next: in the VAD call of the next chunk or in receive_bytes
loop_head(ab) ==
    IF AudioBuffer_len(ab) >= chunk_size THEN "chunk" ELSE "receive"

\* main.py:642-654
Receive(n) ==
    LET data == Run(bytes_in, bytes_in + n)
        buf == buffer \o data
        new_audio_data == np_frombuffer(aligned_prefix(buf))
        ab == AudioBuffer_append(audio_buffer, new_audio_data,
                                 audio_buffer_max_size)
    IN  /\ pc = "receive"
        /\ bytes_in' = bytes_in + n
        /\ IF Len(buf) < 2
           THEN /\ buffer' = buf
                /\ UNCHANGED <<audio_buffer, appended, pc>>
           ELSE /\ buffer' = residual(buf)
                /\ audio_buffer' = ab
                /\ appended' = appended + Len(new_audio_data)
                /\ pc' = loop_head(ab)
        /\ last_op' = [op |-> "receive"]
        /\ UNCHANGED <<popped, ringVars, vadVars, diarVars, eventVars, auxVars, chunk,
                       res, sv>>

\* The VADRing with its time base: d = [cb, offset, dropped].  `dropped`
\* counts the samples that really left the ring.
\* a drop that forgets to move the time base
drop_front_keep_offset(d, n) ==
    LET p == CircularAudioBuffer_pop_front(d.cb, n)
    IN  [cb |-> p.cb, offset |-> d.offset,
         dropped |-> d.dropped + Len(p.out)]

\* audio_vad.pop_front(n); offset += n / sample_rate * 1000
drop_front(d, n) ==
    LET p == CircularAudioBuffer_pop_front(d.cb, n)
    IN  [cb |-> p.cb, offset |-> d.offset + 1000 * n,
         dropped |-> d.dropped + Len(p.out)]

\* main.py:662: audio_vad.append(chunk); what an overwrite pushes out has
\* left the ring too
ring_feed(d, data) ==
    LET cb == CircularAudioBuffer_append(d.cb, data)
    IN  [d EXCEPT !.cb = cb,
                  !.dropped = d.dropped + (d.cb.size + Len(data) - cb.size)]

\* a gate that never fires
cleanup_gate_off(d) == d

\* a gate that frees half a chunk only
cleanup_gate_small(d) ==
    IF CircularAudioBuffer_len(d.cb) * 10
         > vad_buffer_size * vad_buffer_cleanup_threshold_x10
    THEN drop_front(d, chunk_size \div 2)
    ELSE d

\* main.py:666-670
cleanup_gate(d) ==
    IF CircularAudioBuffer_len(d.cb) * 10
         > vad_buffer_size * vad_buffer_cleanup_threshold_x10
    THEN drop_front(d, (vad_buffer_size * vad_buffer_cleanup_ratio_x10) \div 10)
    ELSE d

\* main.py:676-677
long_silence(total, last_activity) ==
    total - last_activity > silence_reset_seconds * sample_rate

\* a reset that drops nothing
silence_reset_keep_all(d) == d

\* main.py:680-684
silence_reset(d) ==
    LET keep_samples == keep_audio_seconds * sample_rate
    IN  IF CircularAudioBuffer_len(d.cb) > keep_samples
        THEN drop_front(d, CircularAudioBuffer_len(d.cb) - keep_samples)
        ELSE d

\* a drop that is skipped: nothing leaves the ring after the segment
post_segment_drop_skipped(d, end) == d

\* a drop that keeps no overlap: the whole window leaves the ring
post_segment_drop_no_overlap(d, end) ==
    IF end > 0 THEN drop_front(d, end) ELSE d

\* main.py:787-791
post_segment_drop(d, end) ==
    LET overlap_samples == sample_rate \div 10
        clear_length == Max(0, end - overlap_samples)
    IN  IF clear_length > 0 THEN drop_front(d, clear_length) ELSE d

\* main.py:698-699: int((t - offset) * sample_rate / 1000)
resolve(t, off) == TruncDiv(t * sample_rate - off, 1000)

\* main.py:703
valid_window(beg, end, vad_buffer_length) ==
    beg < vad_buffer_length /\ end > beg /\ beg >= 0

\* main.py:689-692
update_cursor(cur, boundary) == IF boundary > -1 THEN boundary ELSE cur

\* main.py:759-762: the mode with enable_smart_line_break off
line_break_traditional(speaker_id, segment_start) ==
    [is_new_line |-> TRUE, segment_type |-> "traditional"]

\* a pause test that counts a gap of exactly pause_threshold_ms as a pause
line_break_inclusive(speaker_id, segment_start) ==
    IF ~config.enable_smart_line_break
    THEN [is_new_line |-> TRUE, segment_type |-> "traditional"]
    ELSE IF last_speaker_id # None /\ speaker_id # last_speaker_id
    THEN [is_new_line |-> TRUE, segment_type |-> "new_speaker"]
    ELSE IF last_speaker_id = speaker_id /\ last_segment_end_time > 0
    THEN IF segment_start - last_segment_end_time >= pause_threshold_ms
         THEN [is_new_line |-> TRUE, segment_type |-> "pause"]
         ELSE [is_new_line |-> FALSE, segment_type |-> "continue"]
    ELSE IF last_speaker_id = None
    THEN [is_new_line |-> TRUE, segment_type |-> "new_speaker"]
    ELSE [is_new_line |-> FALSE, segment_type |-> "continue"]

\* main.py:734-762
line_break(speaker_id, segment_start) ==
    IF ~config.enable_smart_line_break
    THEN [is_new_line |-> TRUE, segment_type |-> "traditional"]
    ELSE IF last_speaker_id # None /\ speaker_id # last_speaker_id
    THEN [is_new_line |-> TRUE, segment_type |-> "new_speaker"]
    ELSE IF last_speaker_id = speaker_id /\ last_segment_end_time > 0
    THEN IF segment_start - last_segment_end_time > pause_threshold_ms
         THEN [is_new_line |-> TRUE, segment_type |-> "pause"]
         ELSE [is_new_line |-> FALSE, segment_type |-> "continue"]
    ELSE IF last_speaker_id = None
    THEN [is_new_line |-> TRUE, segment_type |-> "new_speaker"]
    ELSE [is_new_line |-> FALSE, segment_type |-> "continue"]

\* a state that follows every segment, sent or not
line_break_state_any(emitted, speaker_id, vad_end) ==
    [last_speaker_id |-> speaker_id, last_segment_end_time |-> vad_end]

\* main.py:779-781: the line-break state is written after the send, in the
\* branch that sends
line_break_state(emitted, speaker_id, vad_end) ==
    IF emitted
    THEN [last_speaker_id |-> speaker_id, last_segment_end_time |-> vad_end]
    ELSE [last_speaker_id |-> last_speaker_id,
          last_segment_end_time |-> last_segment_end_time]

\* main.py:730-776: the event of a segment
emit_event(speaker_id, vad_beg, vad_end, formatted_text) ==
    LET lb == line_break(speaker_id, vad_beg)
    IN  [code |-> 0, data |-> formatted_text, speaker_id |-> speaker_id,
         is_new_line |-> lb.is_new_line, segment_type |-> lb.segment_type,
         beg |-> vad_beg, end |-> vad_end]

\* a send left to a background task: a later event can overtake this one
send_json_detached(log, response) == <<response>> \o log

\* main.py:777: `await websocket.send_json(...)`; the session goes on only
\* when the event is handed to the connection, so the log keeps the order
send_json(log, response) == Append(log, response)

\* The VAD capability (src/model_service.py:70-81) as the environment: its
\* clock is the audio it was fed; it reports begin and end boundaries in
\* turn, never before the last one it reported and never beyond the audio
\* it has seen.  An outcome is [value, speaking, mark].
VadOffsets == {chunk_size_ms}

VadOutcomes(clock, speaking, mark, may_begin) ==
    LET now == clock * chunk_size_ms
        times == {now - chunk_size_ms + d : d \in VadOffsets}
        quiet == [value |-> << >>, speaking |-> speaking, mark |-> mark,
                  begun |-> 0]
        ends == {[value |-> <<<<-1, e>>>>, speaking |-> FALSE, mark |-> e,
                  begun |-> 0] : e \in {t \in times : t > mark}}
        ends_begins ==
            {[value |-> <<<<-1, x[1]>>, <<x[2], -1>>>>, speaking |-> TRUE,
              mark |-> x[2], begun |-> 1] :
               x \in {y \in times \X times : y[1] > mark /\ y[2] >= y[1]}}
        begins == {[value |-> <<<<b, -1>>>>, speaking |-> TRUE, mark |-> b,
                    begun |-> 1] : b \in {t \in times : t >= mark}}
        wholes == {[value |-> <<<<x[1], x[2]>>>>, speaking |-> FALSE,
                    mark |-> x[2], begun |-> 1] :
                     x \in {y \in times \X times : y[1] >= mark /\ y[2] > y[1]}}
    IN  {quiet}
        \cup (IF speaking THEN ends ELSE {})
        \cup (IF speaking /\ may_begin THEN ends_begins ELSE {})
        \cup (IF ~speaking /\ may_begin THEN begins \cup wholes ELSE {})

\* main.py:657-685: one chunk, from pop_front to the VAD result
ChunkStep(v) ==
    LET p == AudioBuffer_pop_front(audio_buffer, chunk_size)
        total == total_processed_samples + chunk_size
        d0 == [cb |-> audio_vad, offset |-> offset, dropped |-> dropped]
        d1 == cleanup_gate(ring_feed(d0, p.out))
        silent == long_silence(total, last_activity_time)
        d2 == IF silent THEN silence_reset(d1) ELSE d1
    IN  /\ pc = "chunk"
        /\ audio_buffer' = p.ab
        /\ chunk' = p.out
        /\ popped' = popped \o p.out
        /\ total_processed_samples' = total
        /\ audio_vad' = d2.cb
        /\ offset' = d2.offset
        /\ dropped' = d2.dropped
        /\ last_activity_time' = IF silent THEN total ELSE last_activity_time
        /\ vad_clock' = vad_clock + 1
        /\ vad_speaking' = v.speaking
        /\ vad_mark' = v.mark
        /\ vad_begun' = vad_begun + v.begun
        /\ res' = v.value
        /\ pc' = IF v.value = << >> THEN loop_head(p.ab) ELSE "segment"
        /\ last_op' = [op |-> "chunk", silent |-> silent,
                       cleaned |-> d1.offset # offset, offset |-> offset,
                       dropped |-> dropped,
                       vad_buffer_length |-> CircularAudioBuffer_len(audio_vad),
                       reset_from |->
                           [offset |-> d1.offset, dropped |-> d1.dropped,
                            vad_buffer_length |-> CircularAudioBuffer_len(d1.cb),
                            last_activity_time |-> last_activity_time]]
        /\ UNCHANGED <<buffer, bytes_in, appended, last_vad_beg, last_vad_end,
                       diarVars, eventVars, auxVars, sv>>

\* main.py:657-673 and 797-799: one chunk whose VAD call raises.  The
\* exception leaves the loop; the handler logs it and closes the connection.
VadFailure ==
    LET p == AudioBuffer_pop_front(audio_buffer, chunk_size)
        d0 == [cb |-> audio_vad, offset |-> offset, dropped |-> dropped]
        d1 == cleanup_gate(ring_feed(d0, p.out))
    IN  /\ pc = "chunk"
        /\ audio_buffer' = p.ab
        /\ chunk' = p.out
        /\ popped' = popped \o p.out
        /\ total_processed_samples' = total_processed_samples + chunk_size
        /\ audio_vad' = d1.cb
        /\ offset' = d1.offset
        /\ dropped' = d1.dropped
        /\ vad_clock' = vad_clock + 1
        /\ pc' = "closed"
        /\ last_op' = [op |-> "vad_error", sent |-> Len(sent),
                       last_vad_beg |-> last_vad_beg,
                       last_vad_end |-> last_vad_end]
        /\ UNCHANGED <<buffer, bytes_in, appended, last_vad_beg, last_vad_end,
                       last_activity_time, vad_speaking, vad_mark, vad_begun,
                       diarVars, eventVars, auxVars, res, sv>>

\* main.py:642 and 795-796: the client goes away while the session waits
\* for bytes; receive_bytes raises WebSocketDisconnect
Disconnect ==
    /\ pc = "receive"
    /\ pc' = "closed"
    /\ last_op' = [op |-> "disconnect", sent |-> Len(sent)]
    /\ UNCHANGED <<bufVars, ringVars, vadVars, diarVars, eventVars, auxVars,
                   chunk, res, sv>>

\* main.py:724-784: the branch one outcome of `await asr_async(...)` takes.
\* "raise": the call raised; "none": it returned None; "silent": the check
\* of line 727, made on the text as ASR returned it, failed;
\* "format_raise": format_str_v3 raised at line 728 (caught at line 783 as
\* well); "text": the event is built and sent.
asr_branch(asr) ==
    IF asr.kind # "result" THEN asr.kind
    ELSE IF ~contains_chinese_english_number(asr.text) THEN "silent"
    ELSE IF ~format_str_v3(asr.text).ok THEN "format_raise"
    ELSE "text"

\* main.py:710-777: the capability calls of one segment in the order the
\* coroutine awaits them; each `await` ends before the next line runs
segment_awaits(diarized, emitted) ==
    (IF diarized THEN <<"sv_start", "sv_end">> ELSE << >>)
    \o <<"asr_start", "asr_end">>
    \o (IF emitted THEN <<"event">> ELSE << >>)

\* main.py:688-793: one VAD segment.  ev is the loudness of the segment,
\* svres the SV outcomes, asr the outcome of ASR.recognize.
HandleSegment(ev, svres, asr) ==
    LET segment == Head(res)
        vad_beg == update_cursor(last_vad_beg, segment[1])
        vad_end == update_cursor(last_vad_end, segment[2])
        both == vad_beg > -1 /\ vad_end > -1
        beg == resolve(vad_beg, offset)
        end0 == resolve(vad_end, offset)
        vad_buffer_length == CircularAudioBuffer_len(audio_vad)
        valid == both /\ valid_window(beg, end0, vad_buffer_length)
        end == Min(end0, vad_buffer_length)
        segment_audio ==
            [samples |-> CircularAudioBuffer_get_range(audio_vad, beg,
                                                       end - beg),
             energy |-> ev[1], variance |-> ev[2]]
        diarized == sv /\ Len(segment_audio.samples) > 0
        out == diarize_speaker_online_improved_async(
                   segment_audio, speaker_gallery, speaker_counter, sv_thr,
                   speaker_history, current_speaker, svres)
        speaker_id == IF diarized THEN out.speaker_id ELSE DefaultSpeaker
        formatted_text == format_str_v3(asr.text)
        branch == asr_branch(asr)
        emitted == branch = "text"
        d == post_segment_drop([cb |-> audio_vad, offset |-> offset,
                                dropped |-> dropped], end)
    IN  /\ pc = "segment"
        /\ res' = Tail(res)
        /\ pc' = IF Tail(res) = << >> THEN loop_head(audio_buffer)
                 ELSE "segment"
        /\ last_activity_time' = IF both THEN total_processed_samples
                                 ELSE last_activity_time
        /\ IF valid
           THEN /\ last_vad_beg' = -1
                /\ last_vad_end' = -1
                /\ audio_vad' = d.cb
                /\ offset' = d.offset
                /\ dropped' = d.dropped
                /\ IF diarized
                   THEN /\ speaker_gallery' = out.speaker_gallery
                        /\ speaker_counter' = out.speaker_counter
                        /\ speaker_history' = out.speaker_history
                        /\ current_speaker' = out.current_speaker
                   ELSE UNCHANGED <<speaker_gallery, speaker_counter,
                                    speaker_history, current_speaker>>
                /\ sent' = IF emitted
                           THEN send_json(sent, emit_event(speaker_id,
                                              vad_beg, vad_end,
                                              formatted_text.s))
                           ELSE sent
                /\ last_speaker_id'
                     = line_break_state(emitted, speaker_id,
                                        vad_end).last_speaker_id
                /\ last_segment_end_time'
                     = line_break_state(emitted, speaker_id,
                                        vad_end).last_segment_end_time
           ELSE /\ last_vad_beg' = vad_beg
                /\ last_vad_end' = vad_end
                /\ UNCHANGED <<audio_vad, offset, dropped, speaker_gallery,
                               speaker_counter, speaker_history,
                               current_speaker, eventVars>>
        /\ last_op' = [op |-> "segment", both |-> both, valid |-> valid,
                       beg |-> beg, end |-> end0,
                       vad_buffer_length |-> vad_buffer_length,
                       audio_vad |-> audio_vad, offset |-> offset,
                       sent |-> Len(sent), asr |-> branch,
                       text |-> asr.text, diarized |-> diarized,
                       svres |-> svres,
                       awaits |-> segment_awaits(diarized,
                                                 valid /\ emitted)]
        /\ asr_log' = IF valid /\ branch = "raise"
                      THEN Append(asr_log, "raise") ELSE asr_log
        /\ UNCHANGED <<bufVars, runs, text, script, sessions, config,
                       total_processed_samples, vad_clock,
                       vad_speaking, vad_mark, vad_begun, last_call, chunk,
                       sv>>

----------------------------------------------------------------------------
(* The session fed with messages of any size, the VAD hearing no speech    *)

IngestChunks == 1

IngestMsgBytes == {0, 1, 2, 3, 2 * chunk_size - 4, 2 * chunk_size}

NoSpeech == [value |-> << >>, speaking |-> FALSE, mark |-> 0, begun |-> 0]

SessionInit ==
    /\ BufInit /\ RingInit(vad_buffer_size) /\ VadInit /\ DiarInit
    /\ EventInit
    /\ pc = "receive" /\ chunk = << >> /\ res = << >>
    /\ last_op = [op |-> "none"]

InitIngest == SessionInit /\ sv = FALSE

NextIngest ==
    \/ \E n \in IngestMsgBytes :
          bytes_in + n <= IngestChunks * 2 * chunk_size + 1 /\ Receive(n)
    \/ ChunkStep(NoSpeech)

SpecIngest == InitIngest /\ [][NextIngest]_vars

----------------------------------------------------------------------------
(* The session fed with whole chunks, the VAD reporting any boundaries,    *)
(* ASR giving any outcome                                                  *)

MaxChunks == 12
MaxSegments == 2

SessionMsgBytes == {2 * chunk_size}

\* the ASR call raises, returns None, or returns a transcript behind the
\* tags SenseVoice puts before it
AsrOutcomes ==
    {[kind |-> "raise", text |-> << >>], [kind |-> "none", text |-> << >>],
     [kind |-> "result",
      text |-> <<"<|zh|>", "<|NEUTRAL|>", "<|Speech|>", "<|withitn|>", "a">>]}

InitSession == SessionInit /\ sv = FALSE

NextSession ==
    \/ \E n \in SessionMsgBytes :
          bytes_in + n <= MaxChunks * 2 * chunk_size /\ Receive(n)
    \/ \E v \in VadOutcomes(vad_clock + 1, vad_speaking, vad_mark,
                             vad_begun < MaxSegments) :
          ChunkStep(v)
    \/ \E svres \in SvOutcomes(Len(speaker_gallery), {100, 900}),
          asr \in AsrOutcomes :
          HandleSegment(<<50, 5>>, svres, asr)
    \/ VadFailure
    \/ Disconnect

SpecSession == InitSession /\ [][NextSession]_vars

----------------------------------------------------------------------------
(* A short session in which ASR returns a text for every segment           *)

MaxAsrChunks == 4

\* what ASR can return: the tags followed by a transcript, by nothing, or
\* by a second tagged piece; or white space alone
AsrTexts ==
    { <<"<|zh|>", "<|NEUTRAL|>", "<|Speech|>", "<|withitn|>", "a">>,
      <<"<|zh|>", "<|NEUTRAL|>", "<|Speech|>", "<|withitn|>">>,
      <<"<|zh|>", "<|BGM|>", "<|zh|>", "<|BGM|>">>,
      <<" ">> }

NextAsr ==
    \/ \E n \in SessionMsgBytes :
          bytes_in + n <= MaxAsrChunks * 2 * chunk_size /\ Receive(n)
    \/ \E v \in VadOutcomes(vad_clock + 1, vad_speaking, vad_mark,
                             vad_begun < MaxSegments) :
          ChunkStep(v)
    \/ \E svres \in SvOutcomes(Len(speaker_gallery), {100, 900}),
          t \in AsrTexts :
          HandleSegment(<<50, 5>>, svres, [kind |-> "result", text |-> t])

SpecAsr == InitSession /\ [][NextAsr]_vars

\* a short session opened with or without speaker verification
\* (main.py:604), in which SV calls and the ASR call may fail
InitAdvance == SessionInit /\ sv \in BOOLEAN

NextAdvance ==
    \/ \E n \in SessionMsgBytes :
          bytes_in + n <= MaxAsrChunks * 2 * chunk_size /\ Receive(n)
    \/ \E v \in VadOutcomes(vad_clock + 1, vad_speaking, vad_mark,
                             vad_begun < MaxSegments) :
          ChunkStep(v)
    \/ \E svres \in SvOutcomes(Len(speaker_gallery), {100, 900}),
          asr \in AsrOutcomes \cup {[kind |-> "result", text |-> <<" ">>]} :
          HandleSegment(<<50, 5>>, svres, asr)

SpecAdvance == InitAdvance /\ [][NextAdvance]_vars

----------------------------------------------------------------------------
(* A session of sustained speech: the VAD reports a begin boundary at some *)
(* chunk and no end boundary for SpeechSeconds of audio                    *)

SpeechSeconds == 60

NextSpeech ==
    \/ bytes_in * 1000 < SpeechSeconds * 1000 * 2 * sample_rate /\ Receive(2 * chunk_size)
    \/ \E v \in {w \in VadOutcomes(vad_clock + 1, vad_speaking, vad_mark, vad_begun < 1) : \A k \in 1..Len(w.value) : w.value[k][2] = -1} : ChunkStep(v)
    \/ HandleSegment(<<50, 5>>, << >>, [kind |-> "none", text |-> << >>])

SpecSpeech == InitSession /\ [][NextSpeech]_vars

----------------------------------------------------------------------------
(* Scripted sessions: the VAD, SV and ASR capabilities answer as a script  *)
(* says.  script.vad[k] is the VAD result for the k-th chunk, in ms.       *)

Timelines ==
    { << << <<0, 500>>, <<2500, 3000>> >> >>,
      << << <<0, 1000>>, <<1200, 2200>>, <<2400, -1>> >>,
         << <<-1, 3400>>, <<3600, 4600>> >> >>,
      << << >>, << >>, << >>, << <<100, 1200>> >> >> }

ScriptTexts ==
    { <<"<|zh|>", "<|HAPPY|>", "(ni)", "(hao)">>,
      <<"<|zh|>", "<|NEUTRAL|>", "<|Speech|>", "<|withitn|>", "a">> }

\* sv: the query parameter; voices: who speaks in the segments ("one"
\* speaker, or two who "alternate"); rule: what SV answers ("high": 0.9
\* always; "match": 0.9 against a reference of the same voice, 0.1
\* otherwise); ev: loudness of every segment (energy, variance)
Scripts ==
    [sv : BOOLEAN, vad : Timelines, voices : {"one", "alternate"},
     rule : {"high", "match"}, asr : ScriptTexts,
     ev : {<<50, 5>>, <<10, 5>>}]

\* the begin boundaries of a timeline, in order
ScriptBegins(vad) ==
    SelectSeq(Concat([k \in 1..Len(vad) |-> [j \in 1..Len(vad[k]) |-> vad[k][j][1]]]), LAMBDA b : b > -1)

\* the voice speaking at time t (ms): that of the last segment begun by then
VoiceAt(t) ==
    LET begins == ScriptBegins(script.vad)
        begun == {k \in 1..Len(begins) : begins[k] <= t}
    IN  IF script.voices = "one" \/ begun = {} THEN 1
        ELSE 1 + ((Cardinality(begun) - 1) % 2)

\* the time (ms) of the middle sample of an audio taken from the stream
MidTime(audio) ==
    ((audio.samples[(Len(audio.samples) + 1) \div 2] - 1) * 1000) \div sample_rate

\* the answer of the VAD to the next chunk
ScriptVad ==
    LET value == script.vad[vad_clock + 1]
        last == value[Len(value)]
    IN  [value |-> value,
         speaking |-> IF value = << >> THEN vad_speaking ELSE last[2] = -1,
         mark |-> IF value = << >> THEN vad_mark
                  ELSE IF last[2] = -1 THEN last[1] ELSE last[2],
         begun |-> Cardinality({j \in 1..Len(value) : value[j][1] > -1})]

\* the answers of SV for the segment at the head of res, one per entry of
\* the gallery
ScriptSv ==
    LET vad_beg == update_cursor(last_vad_beg, Head(res)[1])
    IN  [i \in 1..Len(speaker_gallery) |->
            [ok |-> TRUE,
             score |-> IF script.rule = "high" THEN 900
                       ELSE IF VoiceAt(MidTime(speaker_gallery[i].val)) = VoiceAt(vad_beg)
                       THEN 900 ELSE 100]]

InitScript ==
    /\ BufInit /\ RingInit(vad_buffer_size) /\ VadInit /\ DiarInit
    /\ last_speaker_id = None /\ last_segment_end_time = 0
    /\ sent = << >> /\ text = << >> /\ asr_log = << >> /\ sessions = << >>
    /\ config = default_config
    /\ pc = "receive" /\ chunk = << >> /\ res = << >>
    /\ last_op = [op |-> "none"]
    /\ script \in Scripts
    /\ sv = script.sv

NextScript ==
    \/ bytes_in < Len(script.vad) * 2 * chunk_size /\ Receive(2 * chunk_size)
    \/ pc = "chunk" /\ ChunkStep(ScriptVad)
    \/ pc = "segment" /\ HandleSegment(script.ev, ScriptSv, [kind |-> "result", text |-> script.asr])

SpecScript == InitScript /\ [][NextScript]_vars

----------------------------------------------------------------------------
(* Concurrent sessions on the shared worker pool.  A cache is a dict       *)
(* object, known by the order in which the process allocated it.           *)

MaxSessions == 2
MaxAccepts == 3

thread_pool_max_workers == 4

SessionIds == 1..MaxSessions

\* one dict used for every session
shared_cache(heap) == 1

\* main.py:617-618: `{}` makes a dict no other reference points to
new_cache(heap) == heap + 1

poolIdle == <<bufVars, ringVars, vadVars, diarVars, eventVars, ctlVars,
              runs, text, asr_log, script, config, last_op>>

\* main.py:607-618: a connection is accepted and gets its two caches
Sess_Accept(s) ==
    LET cache_vad == new_cache(sessions.heap)
        cache_asr == new_cache(sessions.heap + 1)
    IN  /\ sessions.sess[s].pc = "closed"
        /\ sessions.accepts < MaxAccepts
        /\ sessions' = [sessions EXCEPT
               !.heap = @ + 2, !.accepts = @ + 1,
               !.owner = [c \in DOMAIN @ \cup {cache_vad, cache_asr} |->
                            IF c \in {cache_vad, cache_asr} THEN s ELSE @[c]],
               !.sess[s] = [pc |-> "receive", cache_vad |-> cache_vad,
                            cache_asr |-> cache_asr]]
        /\ UNCHANGED poolIdle

\* main.py:673 and model_service.py:70-81: the session hands a VAD call
\* with its cache_vad to the pool and waits for it
Sess_CallVad(s) ==
    /\ sessions.sess[s].pc = "receive"
    /\ sessions' = [sessions EXCEPT
           !.sess[s].pc = "vad",
           !.jobs = @ \cup {[session |-> s, fn |-> "vad", state |-> "queued",
                             cache |-> sessions.sess[s].cache_vad]}]
    /\ UNCHANGED poolIdle

\* main.py:724 and model_service.py:93-115: the same for an ASR call
Sess_CallAsr(s) ==
    /\ sessions.sess[s].pc = "segment"
    /\ sessions' = [sessions EXCEPT
           !.sess[s].pc = "asr",
           !.jobs = @ \cup {[session |-> s, fn |-> "asr", state |-> "queued",
                             cache |-> sessions.sess[s].cache_asr]}]
    /\ UNCHANGED poolIdle

\* model_service.py:20-23: a free worker thread takes a queued call
Pool_Start(job) ==
    /\ job \in sessions.jobs /\ job.state = "queued"
    /\ Cardinality({j \in sessions.jobs : j.state = "running"}) < thread_pool_max_workers
    /\ sessions' = [sessions EXCEPT
           !.jobs = (@ \ {job}) \cup {[job EXCEPT !.state = "running"]}]
    /\ UNCHANGED poolIdle

\* a call ends and its session goes on: after a VAD call to a segment
\* (found) or to the next receive, after an ASR call to the next receive
Pool_Finish(job, found) ==
    /\ job \in sessions.jobs /\ job.state = "running"
    /\ sessions' = [sessions EXCEPT
           !.jobs = @ \ {job},
           !.sess[job.session].pc =
               IF job.fn = "vad" /\ found THEN "segment" ELSE "receive"]
    /\ UNCHANGED poolIdle

\* main.py:795-801: the session ends while it waits for bytes
Sess_Close(s) ==
    /\ sessions.sess[s].pc = "receive"
    /\ sessions' = [sessions EXCEPT
           !.sess[s] = [pc |-> "closed", cache_vad |-> 0, cache_asr |-> 0]]
    /\ UNCHANGED poolIdle

InitPool ==
    /\ BufInit /\ RingInit(vad_buffer_size) /\ VadInit /\ DiarInit /\ CtlInit
    /\ last_speaker_id = None /\ last_segment_end_time = 0
    /\ sent = << >> /\ text = << >> /\ asr_log = << >> /\ script = << >>
    /\ config = default_config
    /\ last_op = [op |-> "none"]
    /\ sessions = [heap |-> 0, accepts |-> 0, owner |-> << >>, jobs |-> {},
                   sess |-> [s \in SessionIds |->
                       [pc |-> "closed", cache_vad |-> 0, cache_asr |-> 0]]]

NextPool ==
    \/ \E s \in SessionIds : Sess_Accept(s)
    \/ \E s \in SessionIds : Sess_CallVad(s)
    \/ \E s \in SessionIds : Sess_CallAsr(s)
    \/ \E job \in sessions.jobs : Pool_Start(job)
    \/ \E job \in sessions.jobs, found \in BOOLEAN : Pool_Finish(job, found)
    \/ \E s \in SessionIds : Sess_Close(s)

SpecPool == InitPool /\ [][NextPool]_vars

----------------------------------------------------------------------------
(* An AudioBuffer driven by arbitrary append and pop_front calls           *)

MaxAppendLen == 3
MaxStream == 8

FB_Append(n) ==
    /\ appended + n <= MaxStream
    /\ audio_buffer' = AudioBuffer_append(audio_buffer,
                                          Run(appended, appended + n),
                                          audio_buffer_max_size)
    /\ appended' = appended + n
    /\ last_op' = [op |-> "append", n |-> n]
    /\ UNCHANGED <<buffer, bytes_in, popped>>
    /\ UNCHANGED <<ringVars, vadVars, diarVars, eventVars, ctlVars, auxVars>>

FB_PopFront(n) ==
    LET r == AudioBuffer_pop_front(audio_buffer, n)
    IN  /\ audio_buffer' = r.ab
        /\ popped' = popped \o r.out
        /\ last_op' = [op |-> "pop_front", n |-> n,
                       len_before |-> AudioBuffer_len(audio_buffer),
                       out |-> r.out]
        /\ UNCHANGED <<buffer, bytes_in, appended>>
        /\ UNCHANGED <<ringVars, vadVars, diarVars, eventVars, ctlVars, auxVars>>

InitFrameBuffer ==
    /\ BufInit /\ RingInit(vad_buffer_size) /\ VadInit /\ DiarInit
    /\ EventInit /\ CtlInit
    /\ last_op = [op |-> "none"]

NextFrameBuffer ==
    \/ \E n \in 0..MaxAppendLen : FB_Append(n)
    \/ \E n \in 0..MaxAppendLen : FB_PopFront(n)

SpecFrameBuffer == InitFrameBuffer /\ [][NextFrameBuffer]_vars

----------------------------------------------------------------------------
(* A CircularAudioBuffer driven by arbitrary calls                         *)

RingCap == 4
MaxRingStream == 9

ringIdle == <<buffer, audio_buffer, bytes_in, popped, vadVars,
              diarVars, eventVars, ctlVars, auxVars>>

\* history: `dropped` counts the samples of the appended stream that are no
\* longer in the sequence the ring stands for (the appended samples, less
\* the popped and cleared prefixes, cut to the newest max_samples)
ring_abstract == Run(dropped, appended)

Ring_Append(n) ==
    /\ appended + n <= MaxRingStream
    /\ audio_vad' = CircularAudioBuffer_append(audio_vad,
                                               Run(appended, appended + n))
    /\ appended' = appended + n
    /\ dropped' = Max(dropped, appended + n - audio_vad.max_samples)
    /\ last_op' = [op |-> "append", data |-> Run(appended, appended + n),
                   before |-> CircularAudioBuffer_resident(audio_vad)]
    /\ UNCHANGED ringIdle

Ring_PopFront(n) ==
    LET r == CircularAudioBuffer_pop_front(audio_vad, n)
    IN  /\ audio_vad' = r.cb
        /\ dropped' = dropped + Min(Max(n, 0), appended - dropped)
        /\ last_op' = [op |-> "pop_front", n |-> n, out |-> r.out,
                       before |-> CircularAudioBuffer_resident(audio_vad)]
        /\ UNCHANGED <<appended, ringIdle>>

Ring_GetRange(o, n) ==
    /\ last_op' = [op |-> "get_range", o |-> o, n |-> n,
                   out |-> CircularAudioBuffer_get_range(audio_vad, o, n),
                   before |-> CircularAudioBuffer_resident(audio_vad),
                   cb |-> audio_vad]
    /\ UNCHANGED <<audio_vad, appended, dropped, ringIdle>>

Ring_Clear ==
    /\ audio_vad' = CircularAudioBuffer_clear(audio_vad)
    /\ dropped' = appended
    /\ last_op' = [op |-> "clear",
                   before |-> CircularAudioBuffer_resident(audio_vad)]
    /\ UNCHANGED <<appended, ringIdle>>

InitRing ==
    /\ BufInit /\ RingInit(RingCap) /\ VadInit /\ DiarInit
    /\ EventInit /\ CtlInit
    /\ last_op = [op |-> "none"]

NextRing ==
    \/ \E n \in 0..(RingCap + 2) : Ring_Append(n)
    \/ \E n \in -1..(RingCap + 1) : Ring_PopFront(n)
    \/ \E o \in 0..(RingCap + 1), n \in -1..(RingCap + 1) : Ring_GetRange(o, n)
    \/ Ring_Clear

SpecRing == InitRing /\ [][NextRing]_vars

----------------------------------------------------------------------------
(* The diarizer called segment after segment, as the session calls it     *)
(* (src/main.py:714-717): any segment, any SV outcome                      *)

MaxCalls == 3

\* SV scores, in thousandths: below 0.6 sv_thr, 0.6 sv_thr, sv_thr, and
\* above 1.1 sv_thr
ScoreGrid == {100, (sv_thr * 6) \div 10, sv_thr, 900}

\* (energy, variance) of a segment, in units of 0.0001: both pass the gate,
\* the energy fails, the variance fails
Loudness == {<<50, 5>>, <<49, 5>>, <<50, 4>>}

\* segment lengths in samples: empty, one sample short of min_audio_length_ms,
\* the shortest and the longest the gate passes, one sample too long
SegmentLengths ==
    {0,
     (min_audio_length_ms * sample_rate) \div 1000 - 1,
     (min_audio_length_ms * sample_rate + 999) \div 1000,
     (max_audio_length_ms * sample_rate) \div 1000,
     (max_audio_length_ms * sample_rate) \div 1000 + 1}

diarIdle == <<bufVars, ringVars, vadVars, eventVars, ctlVars, auxVars,
              last_op>>

DiarizeCall(len, energy, variance, sv_results) ==
    LET audio == [samples |-> Run(100 * last_call.n, 100 * last_call.n + len),
                  energy |-> energy, variance |-> variance]
        out == diarize_speaker_online_improved_async(
                   audio, speaker_gallery, speaker_counter, sv_thr,
                   speaker_history, current_speaker, sv_results)
    IN  /\ last_call.n < MaxCalls
        /\ speaker_gallery' = out.speaker_gallery
        /\ speaker_counter' = out.speaker_counter
        /\ speaker_history' = out.speaker_history
        /\ current_speaker' = out.current_speaker
        /\ last_call' = [op |-> "diarize", n |-> last_call.n + 1,
                         audio |-> audio, sv |-> sv_results,
                         gallery |-> speaker_gallery,
                         history |-> speaker_history,
                         tasks |-> comparison_tasks(audio, speaker_gallery),
                         counter |-> speaker_counter,
                         current |-> current_speaker,
                         speaker_id |-> out.speaker_id, rule |-> out.rule]
        /\ UNCHANGED diarIdle

InitDiar ==
    /\ BufInit /\ RingInit(RingCap) /\ VadInit /\ DiarInit
    /\ EventInit /\ CtlInit
    /\ last_op = [op |-> "none"]

NextDiar ==
    \E len \in SegmentLengths, ev \in Loudness :
        \E sv_results \in SvOutcomes(Len(speaker_gallery), ScoreGrid) :
            DiarizeCall(len, ev[1], ev[2], sv_results)

SpecDiar == InitDiar /\ [][NextDiar]_vars

----------------------------------------------------------------------------
(* The diarizer on segments that pass the gate, with SV scores on either   *)
(* side of each threshold of the decision (speaker_recognition.py:132-177) *)

\* SV scores, in thousandths: at and just under 0.6, 0.7 and 1.1 sv_thr and
\* sv_thr itself, at and just over 0.8 sv_thr, and a low score
TableGrid ==
    {100,
     (sv_thr * 6) \div 10 - 1, (sv_thr * 6) \div 10,
     (sv_thr * 7) \div 10 - 1, (sv_thr * 7) \div 10,
     (sv_thr * 8) \div 10, (sv_thr * 8) \div 10 + 1,
     sv_thr - 1, sv_thr,
     (sv_thr * 11) \div 10 - 1, (sv_thr * 11) \div 10}

NextTable ==
    \E sv_results \in SvOutcomes(Len(speaker_gallery), TableGrid) :
        DiarizeCall((min_audio_length_ms * sample_rate + 999) \div 1000,
                    50, 5, sv_results)

SpecTable == InitDiar /\ [][NextTable]_vars

----------------------------------------------------------------------------
(* The events of a session whose segments all pass ASR: speakers and gaps  *)
(* are any (src/main.py:730-781)                                           *)

MaxEvents == 4

\* silence between the end of the last segment and the next begin: short,
\* exactly pause_threshold_ms, and just above it
Gaps == {100, pause_threshold_ms, pause_threshold_ms + 1}

SegmentMs == 1000

EventSpeakers == {SpeakerLabel(1), SpeakerLabel(2)}

Emit(speaker_id, gap) ==
    LET vad_beg == vad_mark + gap
        vad_end == vad_beg + SegmentMs
    IN  /\ Len(sent) < MaxEvents
        /\ sent' = send_json(sent, emit_event(speaker_id, vad_beg, vad_end,
                                              <<"a">>))
        /\ last_speaker_id' = speaker_id
        /\ last_segment_end_time' = vad_end
        /\ vad_mark' = vad_end
        /\ UNCHANGED <<bufVars, ringVars, diarVars, ctlVars, auxVars, last_op,
                       last_vad_beg, last_vad_end, offset, last_activity_time,
                       total_processed_samples, vad_clock, vad_speaking,
                       vad_begun>>

InitEvents ==
    /\ BufInit /\ RingInit(RingCap) /\ VadInit /\ DiarInit
    /\ EventInit /\ CtlInit
    /\ last_op = [op |-> "none"]

NextEvents == \E speaker_id \in EventSpeakers, gap \in Gaps :
                  Emit(speaker_id, gap)

SpecEvents == InitEvents /\ [][NextEvents]_vars

\* the same events in a process started with either setting of
\* enable_smart_line_break (config.py:35, main.py:738)
InitBreaks ==
    /\ BufInit /\ RingInit(RingCap) /\ VadInit /\ DiarInit /\ CtlInit
    /\ last_speaker_id = None
    /\ last_segment_end_time = 0
    /\ sent = << >> /\ text = << >> /\ asr_log = << >>
    /\ script = << >> /\ sessions = << >>
    /\ config \in [enable_smart_line_break : BOOLEAN]
    /\ last_op = [op |-> "none"]

NextBreaks ==
    \E speaker_id \in EventSpeakers \cup {DefaultSpeaker}, gap \in Gaps :
        Emit(speaker_id, gap)

SpecBreaks == InitBreaks /\ [][NextBreaks]_vars

----------------------------------------------------------------------------
(* Two diarizer calls on the same inputs, followed await by await          *)
(* (src/speaker_recognition.py:73-177, src/model_service.py:84-90).  A     *)
(* call of async_sv_pipeline only makes a coroutine object; its body runs, *)
(* and hands sv_pipeline to the thread pool, when the coroutine is         *)
(* awaited.  The pool may finish concurrent calls in any order.            *)

MaxGallery == 2

RunIds == {1, 2}

\* the shortest segment the gate passes
PassingLen == (min_audio_length_ms * sample_rate + 999) \div 1000

RefAudio(i) ==
    [samples |-> Run(100 * i, 100 * i + PassingLen), energy |-> 50,
     variance |-> 5]

GalleryOf(n) == [i \in 1..n |-> [id |-> SpeakerLabel(i), val |-> RefAudio(i)]]

\* the inputs of a call: a segment that passes the gate or an empty one, a
\* gallery, a current speaker, and the outcome sv_pipeline gives for the
\* segment paired with each reference
Jobs ==
    UNION {
      {[audio |-> [samples |-> Run(0, len), energy |-> 50, variance |-> 5],
        gallery |-> GalleryOf(n), counter |-> n, history |-> << >>,
        current |-> c, sv_table |-> t] :
          len \in {0, PassingLen},
          c \in {None} \cup {SpeakerLabel(i) : i \in 1..n},
          t \in SvOutcomes(n, ScoreGrid)} :
      n \in 0..MaxGallery}

Reverse(q) == [i \in 1..Len(q) |-> q[Len(q) + 1 - i]]

\* a loop that takes the results as the pool completes them
await_order_as_completed(tasks, completion) ==
    IF completion = "lifo" THEN Reverse(tasks) ELSE tasks

\* speaker_recognition.py:112-114: `for spk_id, task in comparison_tasks:
\* await task` takes the tasks in list order, whatever the pool does
await_order(tasks, completion) == tasks

\* model_service.py:84-90 on the pair [segment, reference of spk_id]
sv_pipeline_result(job, spk_id) == job.sv_table[IndexOf(job.gallery, spk_id)]

IdleRun(completion) ==
    [pc |-> "idle", completion |-> completion, tasks |-> << >>, i |-> 0,
     in_flight |-> {}, finished |-> {}, acc |-> no_scores,
     first_wait |-> {}, joined |-> {}, out |-> << >>]

runsIdle == <<bufVars, ringVars, vadVars, diarVars, eventVars, ctlVars,
              text, asr_log, script, sessions, config, last_op>>

\* speaker_recognition.py:73-114: from the call to the first await that
\* suspends, or to the return when there is nothing to compare
Run_Start(r) ==
    LET job == runs.job
        run == runs.run[r]
        tasks == await_order(comparison_tasks(job.audio, job.gallery),
                             run.completion)
        early == diarize_speaker_online_improved_async(
                     job.audio, job.gallery, job.counter, sv_thr,
                     job.history, job.current, << >>)
    IN  /\ run.pc = "idle"
        /\ runs' = [runs EXCEPT !.run[r] =
               IF tasks = << >>
               THEN [run EXCEPT !.pc = "done", !.out = early]
               ELSE [run EXCEPT !.pc = "waiting", !.tasks = tasks, !.i = 1,
                                !.in_flight = {tasks[1]},
                                !.first_wait = {tasks[1]}]]
        /\ UNCHANGED runsIdle

\* speaker_recognition.py:114-177: the awaited SV call ends; the loop takes
\* its result and awaits the next task, or leaves the loop and decides
Run_Resume(r) ==
    LET job == runs.job
        run == runs.run[r]
        spk_id == run.tasks[run.i]
        acc == score_step(run.acc, spk_id, sv_pipeline_result(job, spk_id))
        finished == run.finished \cup {spk_id}
    IN  /\ run.pc = "waiting"
        /\ runs' = [runs EXCEPT !.run[r] =
               IF run.i < Len(run.tasks)
               THEN [run EXCEPT !.i = run.i + 1, !.acc = acc,
                                !.finished = finished,
                                !.in_flight = {run.tasks[run.i + 1]}]
               ELSE [run EXCEPT !.pc = "done", !.acc = acc,
                                !.finished = finished, !.in_flight = {},
                                !.joined = finished,
                                !.out = decide(job.audio, job.gallery,
                                               job.counter, sv_thr,
                                               job.history, job.current,
                                               acc)]]
        /\ UNCHANGED runsIdle

InitRuns ==
    /\ BufInit /\ RingInit(RingCap) /\ VadInit /\ EventInit /\ CtlInit
    /\ speaker_gallery = << >> /\ speaker_counter = 0
    /\ speaker_history = << >> /\ current_speaker = None
    /\ last_call = [op |-> "none", n |-> 0]
    /\ last_op = [op |-> "none"]
    /\ \E job \in Jobs, c1 \in {"fifo", "lifo"}, c2 \in {"fifo", "lifo"} :
           runs = [job |-> job,
                   run |-> [r \in RunIds |->
                              IdleRun(IF r = 1 THEN c1 ELSE c2)]]

NextRuns ==
    \/ \E r \in RunIds : Run_Start(r)
    \/ \E r \in RunIds : Run_Resume(r)

SpecRuns == InitRuns /\ [][NextRuns]_vars

----------------------------------------------------------------------------
(* format_str_v3 applied to a text, and then to its own result             *)

MaxTextLen == 4

TextAtoms == {"<|zh|>", "<|HAPPY|>", "<|BGM|>", " ", "a", "(happy)", "(bgm)"}

\* the strings of at most MaxTextLen atoms
Texts == UNION {[1..n -> TextAtoms] : n \in 0..MaxTextLen}

\* text.t is the input, text.out the results of the calls made so far
InitText ==
    /\ BufInit /\ RingInit(RingCap) /\ VadInit /\ DiarInit /\ CtlInit
    /\ last_speaker_id = None /\ last_segment_end_time = 0
    /\ sent = << >> /\ asr_log = << >>
    /\ script = << >> /\ sessions = << >> /\ config = default_config
    /\ last_op = [op |-> "none"]
    /\ text \in {[t |-> t, out |-> << >>] : t \in Texts}

\* text_processing.py:74-102: one call of format_str_v3, on the input or on
\* what the call before returned; nothing is called after a call that raised
Normalize ==
    LET n == Len(text.out)
        arg == IF n = 0 THEN text.t ELSE text.out[n].s
    IN  /\ n < 2
        /\ n > 0 => text.out[n].ok
        /\ text' = [text EXCEPT !.out = Append(@, format_str_v3(arg))]
        /\ UNCHANGED <<bufVars, ringVars, vadVars, diarVars, eventVars,
                       ctlVars, runs, asr_log, script, sessions, config,
                       last_op>>

NextText == Normalize

SpecText == InitText /\ [][NextText]_vars

----------------------------------------------------------------------------
(* Facts about the last diarizer call                                      *)

Called == last_call.op = "diarize"

\* the current speaker was in the gallery and SV scored the segment against
\* it with a score in [0.6 sv_thr, sv_thr]
InHysteresisBand ==
    /\ Called
    /\ check_audio_quality(last_call.audio)
    /\ Truthy(last_call.current)
    /\ DictHas(last_call.gallery, last_call.current)
    /\ LET a == last_call.sv[IndexOf(last_call.gallery, last_call.current)]
       IN  /\ a.ok
           /\ a.score * 10 >= sv_thr * 6
           /\ a.score <= sv_thr

\* no other entry beats the current speaker: earlier entries score strictly
\* less, later entries score at most as much (or their SV call failed)
CurrentIsBest ==
    LET ia == IndexOf(last_call.gallery, last_call.current)
        a == last_call.sv[ia]
    IN  \A i \in 1..Len(last_call.gallery) :
            \/ i = ia
            \/ ~last_call.sv[i].ok
            \/ last_call.sv[i].score < a.score
            \/ (i > ia /\ last_call.sv[i].score = a.score)

KeptCurrent ==
    /\ last_call.speaker_id = last_call.current
    /\ current_speaker = last_call.current
    /\ speaker_counter = last_call.counter
    /\ speaker_gallery = last_call.gallery

(* C8: after every diarizer call the counter has not decreased, the        *)
(* gallery has speaker_counter entries and their labels are 1..counter.    *)
C8_GalleryMonotonic ==
    /\ Len(speaker_gallery) = speaker_counter
    /\ DictKeys(speaker_gallery) = [i \in 1..speaker_counter |-> SpeakerLabel(i)]
    /\ Called => speaker_counter >= last_call.counter

\* a call on a non-empty gallery added a speaker
C8_Witness ==
    /\ Called
    /\ last_call.counter >= 1
    /\ speaker_counter = last_call.counter + 1
    /\ Len(speaker_gallery) = speaker_counter

(* C9: a diarizer call leaves every entry the gallery had in place, with   *)
(* its label and its reference audio; an entry it adds holds the segment   *)
(* of this call.                                                           *)
C9_GalleryAppendOnly ==
    Called =>
        /\ Len(speaker_gallery) >= Len(last_call.gallery)
        /\ \A i \in 1..Len(last_call.gallery) :
               speaker_gallery[i] = last_call.gallery[i]
        /\ \A i \in (Len(last_call.gallery) + 1)..Len(speaker_gallery) :
               speaker_gallery[i].val = last_call.audio

\* a third speaker joined a gallery whose first two entries are as they were
C9_Witness ==
    /\ Called
    /\ Len(last_call.gallery) = 2
    /\ Len(speaker_gallery) = 3
    /\ speaker_gallery[1] = last_call.gallery[1]
    /\ speaker_gallery[3].val = last_call.audio

(* C10 as stated: whenever the current speaker scores in                   *)
(* [0.6 sv_thr, sv_thr], whatever the other entries score, the diarizer    *)
(* returns the current speaker and creates no speaker.                     *)
C10_HysteresisAnyScores == InHysteresisBand => KeptCurrent

(* C10 amended: ... and no other entry beats it (none scores higher, and   *)
(* none inserted before it scores the same), then the diarizer returns the *)
(* current speaker and creates no speaker.                                 *)
C10_HysteresisWhenBest == (InHysteresisBand /\ CurrentIsBest) => KeptCurrent

\* the current speaker, one of two, kept at exactly 0.6 sv_thr, below the
\* 0.7 sv_thr under which a new speaker would be created
C10_Witness ==
    /\ InHysteresisBand /\ CurrentIsBest
    /\ Len(last_call.gallery) >= 2
    /\ last_call.sv[IndexOf(last_call.gallery, last_call.current)].score * 10
         = sv_thr * 6
    /\ last_call.rule = "continuity"
    /\ KeptCurrent

\* the segment of the last call fails the quality gate: it is empty, its
\* duration is outside [min_audio_length_ms, max_audio_length_ms], or its
\* energy or variance is low
GateFails ==
    LET n == Len(last_call.audio.samples)
    IN  \/ n = 0
        \/ n * 1000 < min_audio_length_ms * sample_rate
        \/ n * 1000 > max_audio_length_ms * sample_rate
        \/ last_call.audio.energy < 50
        \/ last_call.audio.variance < 5

(* C11: a segment that fails the quality gate makes the diarizer return    *)
(* the current speaker if set, else the default label, prepare no SV call  *)
(* and leave gallery, counter, history and current speaker as they were.   *)
C11_GateFailureNoEffect ==
    (Called /\ GateFails) =>
        /\ last_call.speaker_id = IF last_call.current # None
                                  THEN last_call.current ELSE DefaultSpeaker
        /\ last_call.tasks = << >>
        /\ speaker_gallery = last_call.gallery
        /\ speaker_counter = last_call.counter
        /\ speaker_history = last_call.history
        /\ current_speaker = last_call.current

\* a segment with low variance only was refused while a speaker was current
\* and the gallery held two entries
C11_Witness ==
    /\ Called /\ GateFails
    /\ last_call.audio.variance < 5 /\ last_call.audio.energy >= 50
    /\ Len(last_call.gallery) = 2
    /\ last_call.current # None
    /\ last_call.speaker_id = last_call.current
    /\ speaker_history = last_call.history

\* both diarizer calls on the same inputs have returned
BothDone == \A r \in RunIds : runs.run[r].pc = "done"

GapBefore(i) == sent[i].beg - (IF i = 1 THEN 0 ELSE sent[i - 1].end)

ShortGaps == \A i \in 2..Len(sent) : GapBefore(i) < pause_threshold_ms

Alternating == \A i \in 2..Len(sent) : sent[i].speaker_id # sent[i - 1].speaker_id

OneSpeaker == \A i \in 2..Len(sent) : sent[i].speaker_id = sent[i - 1].speaker_id

(* C13: (a) alternating speakers with short gaps: every event is a         *)
(* new_speaker event; (b) one speaker with short gaps: only the first      *)
(* event starts a line; (c) a same-speaker event that begins more than     *)
(* pause_threshold_ms after the previous event's end is a pause event.     *)
C13_LineBreakOrdering ==
    /\ (Alternating /\ ShortGaps) =>
           \A i \in 1..Len(sent) : sent[i].segment_type = "new_speaker"
    /\ (OneSpeaker /\ ShortGaps) =>
           \A i \in 1..Len(sent) : sent[i].is_new_line <=> (i = 1)
    /\ \A i \in 2..Len(sent) :
           (sent[i].speaker_id = sent[i - 1].speaker_id
            /\ GapBefore(i) > pause_threshold_ms)
               => sent[i].segment_type = "pause"

\* four events of one speaker: a short gap, a gap of exactly the threshold
\* that continues the line, then a longer one that breaks it
C13_Witness ==
    /\ Len(sent) = 4
    /\ OneSpeaker
    /\ GapBefore(2) < pause_threshold_ms /\ sent[2].segment_type = "continue"
    /\ GapBefore(3) = pause_threshold_ms /\ sent[3].segment_type = "continue"
    /\ GapBefore(4) > pause_threshold_ms /\ sent[4].segment_type = "pause"
    /\ sent[1].is_new_line /\ sent[4].is_new_line

----------------------------------------------------------------------------
(* C2: the pop_front outputs, followed by the samples still resident, are  *)
(* the appended stream: no sample is lost, duplicated or reordered.        *)
C2_FrameBufferFifo ==
    popped \o AudioBuffer_resident(audio_buffer) = Run(0, appended)

(* C4: the ring never holds more than its capacity, and an append of at    *)
(* least `capacity` samples leaves exactly the last `capacity` of them.    *)
C4_RingCapacity ==
    /\ 0 <= CircularAudioBuffer_len(audio_vad)
    /\ CircularAudioBuffer_len(audio_vad) <= audio_vad.max_samples
    /\ (last_op.op = "append" /\ Len(last_op.data) >= audio_vad.max_samples)
         => /\ CircularAudioBuffer_len(audio_vad) = audio_vad.max_samples
            /\ CircularAudioBuffer_resident(audio_vad)
                 = LastN(last_op.data, audio_vad.max_samples)

\* an append longer than the capacity landed on a ring that was in use
C4_Witness ==
    /\ last_op.op = "append"
    /\ Len(last_op.data) > audio_vad.max_samples
    /\ last_op.before # << >>
    /\ CircularAudioBuffer_resident(audio_vad)
         = LastN(last_op.data, audio_vad.max_samples)

----------------------------------------------------------------------------
(* Facts about the session loop                                            *)

SegmentDone == last_op.op = "segment" /\ last_op.both

(* C1: however the bytes were cut into messages, the samples appended to   *)
(* the FrameBuffer number floor(bytes received / 2) and the retained byte  *)
(* buffer holds bytes received mod 2 bytes.                                *)
C1_ByteAccumulation ==
    /\ appended = bytes_in \div 2
    /\ Len(buffer) = bytes_in % 2

\* an odd byte is held back after odd-sized messages made whole samples
C1_Witness ==
    /\ bytes_in % 2 = 1
    /\ bytes_in >= 5
    /\ Len(buffer) = 1
    /\ appended = bytes_in \div 2
    /\ last_op.op = "receive"

(* C3: every chunk the loop pops from the FrameBuffer, hands to the VAD    *)
(* and appends to the VADRing has exactly chunk_size samples.              *)
C3_ChunkSize == last_op.op = "chunk" => Len(chunk) = chunk_size

(* C5: offset_ms, in samples, is the number of samples that have left the  *)
(* front of the VADRing (offset holds offset_ms * sample_rate).            *)
C5_TimeBase == offset = 1000 * dropped

\* a post-segment drop moved a time base that an earlier drop had moved
C5_Witness ==
    /\ SegmentDone /\ last_op.valid
    /\ offset > last_op.offset
    /\ last_op.offset > 0
    /\ offset = 1000 * dropped

(* C6: whenever both cursors are set, the resolved window lies in the      *)
(* resident samples: 0 <= beg < end <= VADRing.len().                      *)
C6_WindowResident ==
    SegmentDone =>
        /\ 0 <= last_op.beg
        /\ last_op.beg < last_op.end
        /\ last_op.end <= last_op.vad_buffer_length

(* C7: an invalid window emits no event, leaves the ring and the offset    *)
(* as they were and resets both cursors to -1.                             *)
C7_InvalidWindowDiscarded ==
    (SegmentDone /\ ~last_op.valid) =>
        /\ Len(sent) = last_op.sent
        /\ audio_vad = last_op.audio_vad
        /\ offset = last_op.offset
        /\ last_vad_beg = -1
        /\ last_vad_end = -1

(* C14: the events are sent in the order in which the VAD completed their  *)
(* segments: each event's VAD begin is strictly after the begin of the     *)
(* event sent before it, and its VAD end after that event's end.           *)
C14_EmissionOrder ==
    \A i \in 2..Len(sent) :
        /\ sent[i - 1].beg < sent[i].beg
        /\ sent[i - 1].end < sent[i].end

\* two events were sent, the second for a segment that began when the
\* first ended
C14_Witness ==
    /\ Len(sent) >= 2
    /\ sent[2].beg = sent[1].end
    /\ sent[1].beg < sent[2].beg
    /\ SegmentDone

\* the ASR call of the last segment, a valid window, raised or gave nothing
AsrFailed ==
    /\ SegmentDone /\ last_op.valid
    /\ last_op.asr \in {"raise", "none"}

\* samples the post-segment drop takes after the last segment
ClearLength ==
    Max(0, Min(last_op.end, last_op.vad_buffer_length) - sample_rate \div 10)

(* C15: when ASR raises or gives no result for a segment, no event is sent *)
(* for it, the connection stays open, both cursors are reset, the ring and *)
(* the offset advance as after a successful segment; and a segment whose   *)
(* ASR gives recognisable text produces its event, whatever failed before. *)
C15_AsrFailureRecovery ==
    /\ AsrFailed =>
          /\ Len(sent) = last_op.sent
          /\ pc # "closed"
          /\ last_vad_beg = -1 /\ last_vad_end = -1
          /\ CircularAudioBuffer_len(audio_vad)
               = last_op.vad_buffer_length - ClearLength
          /\ offset = last_op.offset + 1000 * ClearLength
    /\ (SegmentDone /\ last_op.valid /\ last_op.asr = "text") =>
          /\ Len(sent) = last_op.sent + 1
          /\ sent[Len(sent)].beg > -1

\* the ASR call raised for one segment and the next segment got its event
C15_Witness ==
    /\ asr_log = <<"raise">>
    /\ SegmentDone /\ last_op.valid /\ last_op.asr = "text"
    /\ Len(sent) = 1
    /\ offset > last_op.offset

(* C16: when the VAD call raises on a chunk, the chunk is skipped with     *)
(* both cursors unchanged and the connection stays open, so that the       *)
(* following chunks are still fed to the VAD.                              *)
C16_VadFailureRecovery ==
    last_op.op = "vad_error" =>
        /\ pc # "closed"
        /\ last_vad_beg = last_op.last_vad_beg
        /\ last_vad_end = last_op.last_vad_end

(* C17: when an exception other than a disconnect ends the session loop,   *)
(* one event with code # 0 is sent before the connection is closed.        *)
C17_FatalErrorEvent ==
    (pc = "closed" /\ last_op.op = "vad_error") =>
        /\ Len(sent) = last_op.sent + 1
        /\ sent[Len(sent)].code # 0

\* ASR returned a text for the last segment whose normalized form holds no
\* CJK ideograph, letter or digit
NormalizedSilent ==
    /\ SegmentDone /\ last_op.valid
    /\ last_op.asr \in {"silent", "text"}
    /\ format_str_v3(last_op.text).ok
    /\ ~contains_chinese_english_number(format_str_v3(last_op.text).s)

(* C18: a segment whose normalized ASR text holds no CJK ideograph, no     *)
(* ASCII letter and no digit sends no event; every event that was sent     *)
(* carries a data field with at least one such character.                  *)
C18_SilentHitSuppression ==
    /\ NormalizedSilent => Len(sent) = last_op.sent
    /\ \A i \in 1..Len(sent) :
          contains_chinese_english_number(sent[i].data)

(* C19: for every text on which format_str_v3 returns, applying it to its  *)
(* own result returns that result again.                                   *)
C19_NormalizationIdempotence ==
    Len(text.out) = 2 => text.out[2] = text.out[1]

\* the ids of the SV calls a run has to make
TaskIds(r) == {runs.run[r].tasks[k] : k \in 1..Len(runs.run[r].tasks)}

(* C20: with two or more gallery entries, every SV call of the diarizer is *)
(* in flight when it awaits the first result, and it decides only after    *)
(* every call has finished or failed.                                      *)
C20_ParallelScoringJoin ==
    \A r \in RunIds :
        /\ (runs.run[r].pc # "idle" /\ Len(runs.run[r].tasks) >= 2)
              => runs.run[r].first_wait = TaskIds(r)
        /\ (runs.run[r].pc = "done" /\ Len(runs.run[r].tasks) >= 2)
              => runs.run[r].joined = TaskIds(r)

\* position of a call event in the order of a segment's awaits
AwaitPos(x) == CHOOSE i \in 1..Len(last_op.awaits) : last_op.awaits[i] = x

(* C21: for a segment handled with sv enabled, ASR.recognize is started    *)
(* before the diarizer call for that segment has completed, and the event  *)
(* is formed only after both have completed.                               *)
C21_AsrParallelToDiarization ==
    (SegmentDone /\ last_op.valid /\ last_op.diarized) =>
        /\ AwaitPos("asr_start") < AwaitPos("sv_end")
        /\ Len(sent) > last_op.sent =>
              /\ AwaitPos("sv_end") < AwaitPos("event")
              /\ AwaitPos("asr_end") < AwaitPos("event")

(* C22: whatever the number of concurrent sessions, no two capability      *)
(* calls in flight at the same time are given the same cache, and every    *)
(* call is given a cache made by the session on whose behalf it runs.      *)
C22_CacheSingleOwner ==
    /\ \A j1, j2 \in sessions.jobs : j1 # j2 => j1.cache # j2.cache
    /\ \A j \in sessions.jobs : sessions.owner[j.cache] = j.session

\* a VAD call of one session and an ASR call of another run at once
C22_Witness ==
    \E j1, j2 \in sessions.jobs :
        /\ j1.session # j2.session
        /\ j1.state = "running" /\ j2.state = "running"
        /\ j1.fn = "vad" /\ j2.fn = "asr"

\* the scripted run has been fed entirely and every chunk is handled
ScriptOver ==
    /\ bytes_in = Len(script.vad) * 2 * chunk_size
    /\ pc = "receive"

\* scenario S4: sv enabled, two audible segments 0-500 ms and 2500-3000 ms,
\* SV scoring 0.9 always
ScenarioS4 ==
    /\ script.sv /\ script.rule = "high" /\ script.ev = <<50, 5>>
    /\ script.vad = << << <<0, 500>>, <<2500, 3000>> >> >>

(* C23: scenario S4 ends with two events, both for speaker 1, the first of *)
(* type new_speaker and the second of type pause, and with a gallery of    *)
(* exactly one entry.                                                      *)
C23_ScenarioS4 ==
    (ScenarioS4 /\ ScriptOver) =>
        /\ Len(sent) = 2
        /\ sent[1].speaker_id = SpeakerLabel(1)
        /\ sent[2].speaker_id = SpeakerLabel(1)
        /\ sent[1].segment_type = "new_speaker"
        /\ sent[2].segment_type = "pause"
        /\ Len(speaker_gallery) = 1

\* scenario S3: sv enabled, four audible segments of one second spoken by
\* two alternating voices, SV scoring 0.9 against a reference of the same
\* voice and 0.1 otherwise
ScenarioS3 ==
    /\ script.sv /\ script.rule = "match" /\ script.voices = "alternate"
    /\ script.ev = <<50, 5>>
    /\ script.vad = << << <<0, 1000>>, <<1200, 2200>>, <<2400, -1>> >>,
                       << <<-1, 3400>>, <<3600, 4600>> >> >>

(* C24: scenario S3 ends with four events labelled speaker 1, 2, 1, 2, all *)
(* of type new_speaker, and with a gallery of exactly two entries.         *)
C24_ScenarioS3 ==
    (ScenarioS3 /\ ScriptOver) =>
        /\ Len(sent) = 4
        /\ \A i \in 1..4 :
              /\ sent[i].speaker_id = SpeakerLabel(2 - (i % 2))
              /\ sent[i].segment_type = "new_speaker"
        /\ Len(speaker_gallery) = 2

\* scenario S3 has been run to its end
C24_Witness == ScenarioS3 /\ ScriptOver /\ Len(sent) = 4

\* scenario S2: sv disabled, the VAD reports the single pair (100, 1200)
\* with the fourth chunk, ASR returns "<|zh|><|HAPPY|>" and two ideographs
ScenarioS2 ==
    /\ ~script.sv
    /\ script.vad = << << >>, << >>, << >>, << <<100, 1200>> >> >>
    /\ script.asr = <<"<|zh|>", "<|HAPPY|>", "(ni)", "(hao)">>

(* C25: scenario S2 ends with exactly one event, whose data is the two     *)
(* ideographs followed by the HAPPY emoji, whose speaker is the default    *)
(* label and which opens a line of type new_speaker; the diarizer is never *)
(* invoked and the gallery stays empty.                                    *)
C25_ScenarioS2 ==
    /\ (ScenarioS2 /\ ScriptOver) =>
          /\ Len(sent) = 1
          /\ sent[1].data = <<"(ni)", "(hao)", "(happy)">>
          /\ sent[1].speaker_id = DefaultSpeaker
          /\ sent[1].is_new_line
          /\ sent[1].segment_type = "new_speaker"
          /\ speaker_gallery = << >>
    /\ (ScenarioS2 /\ last_op.op = "segment") => ~last_op.diarized

\* scenario S2 has been run to its end and its event is out
C25_Witness == ScenarioS2 /\ ScriptOver /\ Len(sent) = 1

\* int(vad_buffer_size * config.vad_buffer_cleanup_ratio)
CleanupSamples == (vad_buffer_size * vad_buffer_cleanup_ratio_x10) \div 10

(* C26: while chunks keep arriving and the VAD reports no end boundary,    *)
(* the ring never holds more than its capacity; once the audio fed exceeds *)
(* the cleanup threshold the gate has fired; a firing takes                *)
(* int(cleanup_ratio * capacity) samples from the front of the ring; and   *)
(* the offset grows by exactly the duration of the samples removed.        *)
C26_Backpressure ==
    /\ CircularAudioBuffer_len(audio_vad) <= vad_buffer_size
    /\ CircularAudioBuffer_resident(audio_vad)
         = SubSeq(popped, dropped + 1, Len(popped))
    /\ total_processed_samples * 10
         > vad_buffer_size * vad_buffer_cleanup_threshold_x10
         => dropped >= CleanupSamples
    /\ last_op.op = "chunk" =>
          /\ offset - last_op.offset = 1000 * (dropped - last_op.dropped)
          /\ last_op.cleaned => dropped - last_op.dropped >= CleanupSamples
          /\ (last_op.cleaned /\ ~last_op.silent) =>
                /\ dropped - last_op.dropped = CleanupSamples
                /\ CircularAudioBuffer_len(audio_vad)
                     = last_op.vad_buffer_length + chunk_size - CleanupSamples

\* the gate fires during speech that has lasted longer than the ring
C26_Witness ==
    /\ last_op.op = "chunk" /\ last_op.cleaned /\ ~last_op.silent
    /\ vad_speaking /\ last_vad_beg > -1
    /\ total_processed_samples > 2 * vad_buffer_size

\* elements [o, min(o + n, len)) of the sequence s, 0-based
Elements(s, o, n) ==
    [i \in 1..Max(0, Min(o + n, Len(s)) - o) |-> s[o + i]]

(* C27: after any appends (wrapping and overflowing ones included),        *)
(* pop_fronts and clears, get_range(o, n) with 0 <= o returns exactly the  *)
(* elements [o, min(o + n, len)) of the sequence made of all appended      *)
(* samples, less the popped and cleared prefixes, cut to the newest        *)
(* max_samples; it returns no sample from outside that window and leaves   *)
(* the ring as it was.                                                     *)
C27_RingRefinesSequence ==
    /\ CircularAudioBuffer_len(audio_vad) = Len(ring_abstract)
    /\ Len(ring_abstract) <= audio_vad.max_samples
    /\ \A o \in 0..(audio_vad.max_samples + 1) :
          \A n \in (0 - 1)..(audio_vad.max_samples + 1) :
             CircularAudioBuffer_get_range(audio_vad, o, n)
               = Elements(ring_abstract, o, n)
    /\ last_op.op = "get_range" =>
          /\ last_op.out = Elements(ring_abstract, last_op.o, last_op.n)
          /\ \A k \in 1..Len(last_op.out) :
                \E j \in 1..Len(ring_abstract) : last_op.out[k] = ring_abstract[j]
          /\ audio_vad = last_op.cb

\* a read across the end of the backing array, on a ring that has lost
\* samples to an overflowing append
C27_Witness ==
    /\ last_op.op = "get_range"
    /\ Len(last_op.out) >= 2
    /\ audio_vad.read_pos + last_op.o + Len(last_op.out) > audio_vad.max_samples
    /\ appended > audio_vad.max_samples
    /\ dropped > 0

\* the last call was made on a gallery with entries, on a segment that
\* passes the gate, and every entry was scored
TableCase ==
    /\ Called /\ ~GateFails
    /\ last_call.gallery # << >>
    /\ \A i \in 1..Len(last_call.sv) : last_call.sv[i].ok

\* the score of gallery entry i in the last call
ScoreOf(i) == last_call.sv[i].score

\* the entry of the best score, the first of them in gallery order
BestEntry ==
    CHOOSE i \in 1..Len(last_call.gallery) :
        /\ \A j \in 1..Len(last_call.gallery) : ScoreOf(j) <= ScoreOf(i)
        /\ \A j \in 1..(i - 1) : ScoreOf(j) < ScoreOf(i)

\* ten times tau': 1.1 tau when the current speaker scores over 0.8 tau
TauPrime10 ==
    IF /\ last_call.current # None
       /\ DictHas(last_call.gallery, last_call.current)
       /\ ScoreOf(IndexOf(last_call.gallery, last_call.current)) * 10
            > sv_thr * 8
    THEN sv_thr * 11 ELSE sv_thr * 10

\* the row of the table that applies to the last call
TableRow ==
    IF /\ last_call.gallery[BestEntry].id = last_call.current
       /\ ScoreOf(BestEntry) * 10 >= sv_thr * 6
    THEN "current"
    ELSE IF ScoreOf(BestEntry) * 10 >= TauPrime10 THEN "best"
    ELSE IF \A i \in 1..Len(last_call.gallery) : ScoreOf(i) * 10 < sv_thr * 7
    THEN "create"
    ELSE "best"

\* the label the table gives
TableLabel ==
    CASE TableRow = "current" -> last_call.current
      [] TableRow = "best" -> last_call.gallery[BestEntry].id
      [] TableRow = "create" -> SpeakerLabel(last_call.counter + 1)

(* C28: on a segment that passes the gate, with a gallery that has entries *)
(* and a score for each, the diarizer returns the current speaker if it is *)
(* the best and scores at least 0.6 sv_thr; else the best if it reaches    *)
(* tau' (1.1 sv_thr if the current speaker scores over 0.8 sv_thr, else    *)
(* sv_thr); else, if every score is under 0.7 sv_thr, a new label numbered *)
(* counter + 1 whose reference is the segment; else the best, with no new  *)
(* entry.  With an empty gallery it returns the new label counter + 1.     *)
C28_DecisionTable ==
    /\ TableCase =>
          /\ last_call.speaker_id = TableLabel
          /\ current_speaker = TableLabel
          /\ IF TableRow = "create"
             THEN /\ speaker_counter = last_call.counter + 1
                  /\ speaker_gallery
                       = Append(last_call.gallery,
                                [id |-> TableLabel, val |-> last_call.audio])
             ELSE /\ speaker_counter = last_call.counter
                  /\ speaker_gallery = last_call.gallery
    /\ (Called /\ ~GateFails /\ last_call.gallery = << >>) =>
          /\ last_call.speaker_id = SpeakerLabel(last_call.counter + 1)
          /\ current_speaker = last_call.speaker_id
          /\ speaker_counter = last_call.counter + 1
          /\ speaker_gallery
               = <<[id |-> last_call.speaker_id, val |-> last_call.audio]>>

\* the other of two speakers scores best, under the raised threshold, while
\* the current one scores over 0.8 sv_thr: the best is returned, nothing added
C28_Witness ==
    /\ TableCase
    /\ Len(last_call.gallery) = 2
    /\ last_call.current # None
    /\ last_call.gallery[BestEntry].id # last_call.current
    /\ TauPrime10 = sv_thr * 11
    /\ ScoreOf(BestEntry) * 10 < TauPrime10
    /\ ScoreOf(BestEntry) >= sv_thr
    /\ last_call.speaker_id = last_call.gallery[BestEntry].id
    /\ speaker_gallery = last_call.gallery

\* the (is_new_line, segment_type) the table gives to the i-th event sent
BreakRow(i) ==
    IF ~config.enable_smart_line_break THEN <<TRUE, "traditional">>
    ELSE IF i = 1 THEN <<TRUE, "new_speaker">>
    ELSE IF sent[i].speaker_id # sent[i - 1].speaker_id
    THEN <<TRUE, "new_speaker">>
    ELSE IF sent[i].beg - sent[i - 1].end > pause_threshold_ms
    THEN <<TRUE, "pause">>
    ELSE <<FALSE, "continue">>

(* C29: every event carries (true, traditional) when smart line break is   *)
(* off; else (true, new_speaker) when no event was sent before it or its   *)
(* speaker differs from the previous event's; else (true, pause) when it   *)
(* begins more than pause_threshold_ms after the previous event's end;     *)
(* else (false, continue), a gap of exactly pause_threshold_ms included.   *)
C29_LineBreakTable ==
    \A i \in 1..Len(sent) :
        <<sent[i].is_new_line, sent[i].segment_type>> = BreakRow(i)

\* with smart line break on, the same speaker went on after exactly
\* pause_threshold_ms (continue) and then after one millisecond more (pause)
C29_Witness ==
    /\ config.enable_smart_line_break
    /\ Len(sent) >= 3
    /\ sent[1].speaker_id = sent[2].speaker_id
    /\ sent[2].speaker_id = sent[3].speaker_id
    /\ sent[2].beg - sent[1].end = pause_threshold_ms
    /\ sent[2].segment_type = "continue" /\ ~sent[2].is_new_line
    /\ sent[3].beg - sent[2].end = pause_threshold_ms + 1
    /\ sent[3].segment_type = "pause" /\ sent[3].is_new_line

(* C30: after the handling of a segment whose window is valid, the ring    *)
(* has lost exactly max(0, end - overlap_samples) samples from its front,  *)
(* with overlap_samples = 0.1 sample_rate, the offset has grown by exactly *)
(* their duration and both cursors are -1, whether the event was sent, was *)
(* withheld for lack of text, or the ASR call or an SV call raised.        *)
C30_PostSegmentAdvance ==
    (SegmentDone /\ last_op.valid) =>
        /\ CircularAudioBuffer_resident(audio_vad)
             = SubSeq(CircularAudioBuffer_resident(last_op.audio_vad),
                      ClearLength + 1, last_op.vad_buffer_length)
        /\ offset - last_op.offset = 1000 * ClearLength
        /\ last_vad_beg = -1 /\ last_vad_end = -1

\* in a session with speaker verification, the SV call and the ASR call of
\* a segment both raised, and the ring advanced
C30_Witness ==
    /\ SegmentDone /\ last_op.valid
    /\ sv /\ last_op.diarized
    /\ \E i \in DOMAIN last_op.svres : ~last_op.svres[i].ok
    /\ last_op.asr = "raise"
    /\ Len(sent) = last_op.sent
    /\ ClearLength > 0
    /\ offset > last_op.offset
    /\ last_vad_beg = -1 /\ last_vad_end = -1

\* the last step was a chunk step: the state is the one its silence reset
\* (or its absence) left
ChunkDone == last_op.op = "chunk"

(* C31: a chunk step on which more than silence_reset_seconds of audio     *)
(* passed since the last activity leaves at most keep_audio_seconds *      *)
(* sample_rate samples in the ring, the most recent ones, the offset grown *)
(* by exactly the duration of the samples the reset dropped, and the last  *)
(* activity at total_processed_samples; on any other chunk step the reset  *)
(* changes none of ring, offset and last activity.                         *)
C31_SilenceReset ==
    ChunkDone =>
        /\ last_op.silent
             = (total_processed_samples - last_op.reset_from.last_activity_time
                  > silence_reset_seconds * sample_rate)
        /\ CircularAudioBuffer_resident(audio_vad)
             = SubSeq(popped, dropped + 1, Len(popped))
        /\ offset - last_op.reset_from.offset
             = 1000 * (dropped - last_op.reset_from.dropped)
        /\ CircularAudioBuffer_len(audio_vad)
             = last_op.reset_from.vad_buffer_length
                 - (dropped - last_op.reset_from.dropped)
        /\ IF last_op.silent
           THEN /\ CircularAudioBuffer_len(audio_vad)
                     <= keep_audio_seconds * sample_rate
                /\ CircularAudioBuffer_len(audio_vad)
                     = Min(last_op.reset_from.vad_buffer_length,
                           keep_audio_seconds * sample_rate)
                /\ last_activity_time = total_processed_samples
           ELSE /\ dropped = last_op.reset_from.dropped
                /\ offset = last_op.reset_from.offset
                /\ last_activity_time = last_op.reset_from.last_activity_time

\* a reset that dropped samples and moved the offset
C31_Witness ==
    /\ ChunkDone /\ last_op.silent
    /\ dropped > last_op.reset_from.dropped
    /\ offset > last_op.reset_from.offset
    /\ CircularAudioBuffer_len(audio_vad) = keep_audio_seconds * sample_rate
    /\ last_activity_time = total_processed_samples

\* the gallery entries whose SV call returned a score in the last call
Scored == {i \in 1..Len(last_call.gallery) : last_call.sv[i].ok}

\* the last call passed the gate and SV raised for some entries, not for all
PartialFailure ==
    /\ Called /\ ~GateFails
    /\ Scored # {}
    /\ Scored # 1..Len(last_call.gallery)

\* the best of the scored entries, the first of them in gallery order
BestScored ==
    CHOOSE i \in Scored :
        /\ \A j \in Scored : ScoreOf(j) <= ScoreOf(i)
        /\ \A j \in Scored : j < i => ScoreOf(j) < ScoreOf(i)

\* the row of the decision rule on the scored entries alone
ScoredRow ==
    LET raised == \E i \in Scored :
                      /\ last_call.gallery[i].id = last_call.current
                      /\ ScoreOf(i) * 10 > sv_thr * 8
    IN  IF /\ last_call.gallery[BestScored].id = last_call.current
           /\ ScoreOf(BestScored) * 10 >= sv_thr * 6
        THEN "current"
        ELSE IF ScoreOf(BestScored) * 10
                  >= (IF raised THEN sv_thr * 11 ELSE sv_thr * 10)
        THEN "best"
        ELSE IF \A i \in Scored : ScoreOf(i) * 10 < sv_thr * 7 THEN "create"
        ELSE "best"

(* C32: when SV raises for some gallery entries but not all, the diarizer  *)
(* returns, and the label it returns is the one the decision rule gives on *)
(* the scores of the other entries alone: the failed entries count for     *)
(* nothing, and no entry of the gallery is lost.                           *)
C32_PartialSvFailure ==
    PartialFailure =>
        /\ last_call.rule \in {"continuity", "match", "new", "moderate"}
        /\ last_call.speaker_id
             = CASE ScoredRow = "current" -> last_call.current
                 [] ScoredRow = "best" -> last_call.gallery[BestScored].id
                 [] ScoredRow = "create" -> SpeakerLabel(last_call.counter + 1)
        /\ current_speaker = last_call.speaker_id
        /\ \A i \in 1..Len(last_call.gallery) :
               speaker_gallery[i] = last_call.gallery[i]
        /\ Len(speaker_gallery)
             = Len(last_call.gallery) + (IF ScoredRow = "create" THEN 1 ELSE 0)

\* SV raised for the first of two entries and the second, scored after it,
\* was matched
C32_Witness ==
    /\ PartialFailure
    /\ Len(last_call.gallery) = 2
    /\ Scored = {2}
    /\ ScoreOf(2) >= sv_thr
    /\ last_call.speaker_id = last_call.gallery[2].id
    /\ speaker_gallery = last_call.gallery

(* C33: a diarizer call on a segment that passes the gate appends exactly  *)
(* one history entry, whose label is the label returned and whose          *)
(* confidence is in [0, 1] (here in thousandths); a call on a segment that *)
(* fails the gate appends nothing; no call changes or removes an entry.    *)
C33_SpeakerHistory ==
    Called =>
        /\ \A i \in 1..Len(last_call.history) :
               i <= Len(speaker_history)
                 /\ speaker_history[i] = last_call.history[i]
        /\ IF GateFails
           THEN speaker_history = last_call.history
           ELSE /\ Len(speaker_history) = Len(last_call.history) + 1
                /\ speaker_history[Len(speaker_history)][1]
                     = last_call.speaker_id
                /\ speaker_history[Len(speaker_history)][2] >= 0
                /\ speaker_history[Len(speaker_history)][2] <= 1000

\* a call that fell on the moderate path (no score reached the threshold,
\* one was too high for a new speaker) added the third entry to the history
C33_Witness ==
    /\ Called /\ ~GateFails
    /\ last_call.rule = "moderate"
    /\ Len(last_call.history) = 2
    /\ Len(speaker_history) = 3
    /\ speaker_history[3][1] = last_call.speaker_id
    /\ speaker_history[3][2] <= 700

\* the last segment had a valid window and its event was withheld: the ASR
\* call raised, returned nothing, or returned no recognisable text
Suppressed ==
    /\ SegmentDone /\ last_op.valid
    /\ last_op.asr \in {"raise", "none", "silent", "format_raise"}

(* C34: last_speaker_id and last_segment_end_time are those of the last    *)
(* event sent (None and 0 before the first): they change exactly when an   *)
(* event is sent, to its speaker and its VAD end; a segment whose event is *)
(* withheld leaves them alone, so that the next event is classified        *)
(* against the last event sent.                                            *)
C34_LineBreakState ==
    /\ IF sent = << >>
       THEN last_speaker_id = None /\ last_segment_end_time = 0
       ELSE /\ last_speaker_id = sent[Len(sent)].speaker_id
            /\ last_segment_end_time = sent[Len(sent)].end
    /\ Suppressed => Len(sent) = last_op.sent
    /\ \A i \in 1..Len(sent) :
          <<sent[i].is_new_line, sent[i].segment_type>> = BreakRow(i)

\* the segment after the first event was withheld; the state is still that
\* of the first event
C34_Witness ==
    /\ Suppressed
    /\ Len(sent) = 1
    /\ last_op.sent = 1
    /\ last_speaker_id = sent[1].speaker_id
    /\ last_segment_end_time = sent[1].end
    /\ vad_mark > sent[1].end

(* C35: the current speaker is always unset or a label of the gallery, and *)
(* every diarizer call returns as label the current speaker it returns;    *)
(* the one exception is a segment that fails the gate while no speaker is  *)
(* current: the call returns the default label and the current speaker     *)
(* stays unset.                                                            *)
C35_CurrentSpeakerConsistency ==
    /\ current_speaker = None \/ DictHas(speaker_gallery, current_speaker)
    /\ Called =>
          IF GateFails /\ last_call.current = None
          THEN /\ last_call.speaker_id = DefaultSpeaker
               /\ current_speaker = None
          ELSE /\ last_call.speaker_id = current_speaker
               /\ DictHas(speaker_gallery, last_call.speaker_id)

\* the call switched from the current speaker to another one of the gallery
C35_Witness ==
    /\ Called /\ ~GateFails
    /\ last_call.current # None
    /\ current_speaker # last_call.current
    /\ DictHas(last_call.gallery, current_speaker)
    /\ last_call.speaker_id = current_speaker

\* the last call passed the gate on a gallery with entries, and SV raised
\* for every one of them
TotalFailure ==
    /\ Called /\ ~GateFails
    /\ last_call.gallery # << >>
    /\ Scored = {}

Headroom ==
    /\ chunk_size * 10
         <= (10 - vad_buffer_cleanup_threshold_x10) * vad_buffer_size
    /\ vad_buffer_cleanup_ratio_x10 * vad_buffer_size >= chunk_size * 10

(* C37: with a ring of vad_buffer_seconds * sample_rate samples and the    *)
(* headroom above, every state of a session leaves room for one more       *)
(* chunk (len + chunk_size <= capacity), so that no append overwrites the  *)
(* oldest samples: every sample that has left the ring is counted in the   *)
(* offset, and the ring holds the newest samples fed to it.                *)
C37_NoRingOverwrite ==
    Headroom =>
        /\ audio_vad.max_samples = vad_buffer_seconds * sample_rate
        /\ CircularAudioBuffer_len(audio_vad) + chunk_size
             <= audio_vad.max_samples
        /\ ChunkDone =>
              last_op.vad_buffer_length + chunk_size <= audio_vad.max_samples
        /\ offset = 1000 * dropped
        /\ CircularAudioBuffer_len(audio_vad) = Len(popped) - dropped

\* a chunk was appended to a ring that had room for exactly that chunk, the
\* gate fired on the full ring and the offset moved
C37_Witness ==
    /\ Headroom
    /\ ChunkDone /\ last_op.cleaned
    /\ last_op.vad_buffer_length + chunk_size = audio_vad.max_samples
    /\ dropped > last_op.dropped
    /\ offset = 1000 * dropped

\* the input holds control tokens (language, emotion, event), spaces and
\* letters only: no emoji typed in by hand
TokensAndText ==
    \A k \in 1..Len(text.t) :
        text.t[k] \in {"<|zh|>", "<|HAPPY|>", "<|BGM|>", " ", "a"}

(* C38: on every input made of language, emotion and event control tokens  *)
(* interleaved with text, format_str_v3 returns a string: it does not      *)
(* raise.                                                                  *)
C38_NormalizationTotal ==
    (TokensAndText /\ Len(text.out) >= 1) => text.out[1].ok

====
